---- MODULE Spec2Model ----
(***************************************************************************)
(* Model of "The Game" server: the rules engine (src/src/game/GameEngine.ts)*)
(* and the room / connection coordinator (src/dist/server.js) with its      *)
(* external store (src/dist/services/RedisService.js).  The server loads    *)
(* the compiled engine, src/dist/game/GameEngine.js, which is the engine    *)
(* source line by line except for initializeGame's starting player.         *)
(*                                                                         *)
(* A card is modelled by its value: createDeck gives every card a fresh     *)
(* uuid and a distinct value, so ids and values are in bijection.  The      *)
(* timestamps createdAt / lastActivity and the connectionId copy of the     *)
(* player id are not modelled.  JSON.parse(JSON.stringify(x)) is a deep     *)
(* copy; TLA+ values are immutable, so a copy is the value itself and       *)
(* "the caller's object is not mutated" is modelled by the result record    *)
(* of each operation carrying the state the caller's reference holds.       *)
(***************************************************************************)
EXTENDS Integers, Sequences, FiniteSets, Bags, TLC

VARIABLES
    game,               \* engine: the ServerGameState the caller holds, or NoGame
    lastCall,           \* the last call or handler step and how it ended
    steps,              \* number of successful calls / of events so far
    rooms,              \* GameServer.rooms: room code -> room object, or NoRef
    heap,               \* the room objects
    playerConnections,  \* GameServer.playerConnections: socket -> binding
    readyState,         \* readyState of each socket
    store,              \* the keys of the external store, per room code
    connected,          \* RedisService.isConnected()
    tasks,              \* handlers suspended at an await
    sent                \* messages sent during the last step, in order

engineVars == <<game, lastCall, steps>>

serverVars == <<rooms, heap, playerConnections, readyState, store, connected, tasks, sent>>

vars == <<game, lastCall, steps, rooms, heap, playerConnections, readyState, store,
          connected, tasks, sent>>

(***************************************************************************)
(* Bounds of the exploration                                               *)
(***************************************************************************)
MaxSteps == 3
MaxEvents == 2
MaxObjects == 2

(***************************************************************************)
(* Program constants                                                       *)
(***************************************************************************)
MinCardValue == 2
MaxCardValue == 99
MaxPlayers == 5
MaxHistory == 10
MaxChatHistory == 100
ReverseJump == 10

NoGame == [status |-> "none"]

Min(a, b) == IF a <= b THEN a ELSE b

SeqToSet(s) == {s[i] : i \in 1..Len(s)}

RECURSIVE SumSeq(_)
SumSeq(s) == IF Len(s) = 0 THEN 0 ELSE Head(s) + SumSeq(Tail(s))

(***************************************************************************)
(* GameEngine.createDeck / shuffleDeck                                     *)
(***************************************************************************)
\* The unshuffled deck built by the loop of createDeck: values 2..99 in order.
OrderedDeck == [i \in 1..(MaxCardValue - MinCardValue + 1) |-> i + MinCardValue - 1]

\* The runs of Math.random the model enumerates.  A run gives, for every
\* loop index i of shuffleDeck, the index j = floor(random() * (i + 1)),
\* 0 <= j <= i.
RandomRuns == {"keep", "extremes", "late"}

RandomIndex(run, i) ==
    CASE run = "keep" -> i
      [] run = "late" ->
            CASE i \in 92..97 -> i - 40
              [] i = 90 -> 85
              [] i \in 88..89 -> i - 40
              [] OTHER -> i
      [] run = "extremes" ->
            CASE i = 97 -> 0
              [] i = 96 -> 1
              [] i = 95 -> 0
              [] i = 94 -> 1
              [] i = 87 -> 2
              [] i = 86 -> 3
              [] OTHER -> i

\* [shuffled[i], shuffled[j]] = [shuffled[j], shuffled[i]]  (0-based i, j)
SwapAt(s, i, j) == [s EXCEPT ![i + 1] = s[j + 1], ![j + 1] = s[i + 1]]

\* for (let i = hi; i >= lo; i--) swap(i, j(i)).  The loop is evaluated by
\* halving its index range, upper half first, which keeps the order of the
\* swaps; reading Len(s) first makes TLC evaluate the upper half before it
\* descends into the lower one, which keeps the evaluation shallow.
RECURSIVE ShuffleLoop(_, _, _, _)
ShuffleLoop(s, hi, lo, run) ==
    IF Len(s) <= 1 \/ hi < lo THEN s
    ELSE IF hi = lo THEN SwapAt(s, hi, RandomIndex(run, hi))
    ELSE LET mid == (hi + lo) \div 2
         IN  ShuffleLoop(ShuffleLoop(s, hi, mid + 1, run), mid, lo, run)

ShuffleDeck(deck, run) == ShuffleLoop(deck, Len(deck) - 1, 1, run)

CreateDeck(run) == ShuffleDeck(OrderedDeck, run)

(***************************************************************************)
(* GameEngine.createInitialPiles / getStartingHandSize                     *)
(***************************************************************************)
CreateInitialPiles ==
    << [id |-> "ascending-1",  type |-> "ascending",  startValue |-> 1,   currentValue |-> 1,   cards |-> <<>>],
       [id |-> "ascending-2",  type |-> "ascending",  startValue |-> 1,   currentValue |-> 1,   cards |-> <<>>],
       [id |-> "descending-1", type |-> "descending", startValue |-> 100, currentValue |-> 100, cards |-> <<>>],
       [id |-> "descending-2", type |-> "descending", startValue |-> 100, currentValue |-> 100, cards |-> <<>>] >>

\* getStartingHandSize without the case of two players.
GetStartingHandSizeNoPair(playerCount) ==
    IF playerCount = 1 THEN 8 ELSE 6

GetStartingHandSize(playerCount) ==
    IF playerCount = 1 THEN 8
    ELSE IF playerCount = 2 THEN 7
    ELSE 6

\* hand.sort((a, b) => a.value - b.value)
SortHand(hand) == SortSeq(hand, LAMBDA a, b : a < b)

(***************************************************************************)
(* GameEngine.canPlayCard / hasValidMoves                                  *)
(***************************************************************************)
\* canPlayCard without the jump of ten against the direction of the pile.
CanPlayCardNoJump(card, pile) ==
    IF pile.type = "ascending" THEN card > pile.currentValue ELSE card < pile.currentValue

CanPlayCard(card, pile) ==
    IF pile.type = "ascending"
    THEN card > pile.currentValue \/ card = pile.currentValue - ReverseJump
    ELSE card < pile.currentValue \/ card = pile.currentValue + ReverseJump

HasValidMoves(player, piles) ==
    \E c \in 1..Len(player.hand) : \E k \in 1..Len(piles) :
        CanPlayCard(player.hand[c], piles[k])

(***************************************************************************)
(* GameEngine.determineStartingPlayer                                      *)
(***************************************************************************)
StartScore(player, piles) ==
    Cardinality({<<c, k>> \in (1..Len(player.hand)) \X (1..Len(piles)) :
                    CanPlayCard(player.hand[c], piles[k])})
    + 2 * Cardinality({c \in 1..Len(player.hand) :
                    player.hand[c] <= 3 \/ player.hand[c] >= 98})
    + Cardinality({c \in 1..Len(player.hand) :
                    player.hand[c] <= 10 \/ player.hand[c] >= 90})

\* The loop over the players: a later player replaces the best one only
\* with a strictly higher score.  Returns the 1-based index.
RECURSIVE StartLoop(_, _, _, _, _)
StartLoop(players, piles, i, bestIndex, bestScore) ==
    IF i > Len(players) THEN bestIndex
    ELSE IF StartScore(players[i], piles) > bestScore
         THEN StartLoop(players, piles, i + 1, i, StartScore(players[i], piles))
         ELSE StartLoop(players, piles, i + 1, bestIndex, bestScore)

DetermineStartingPlayer(players, piles) == StartLoop(players, piles, 1, 1, -1)

(***************************************************************************)
(* GameEngine.initializeGame                                               *)
(***************************************************************************)
\* handSize times deck.pop(), skipping the pops of an empty deck.
PopCards(deck, n) ==
    LET m == Min(n, Len(deck))
    IN  [popped |-> [i \in 1..m |-> deck[Len(deck) + 1 - i]],
         rest   |-> SubSeq(deck, 1, Len(deck) - m)]

\* playerData.map(...): deals the players in order from the same deck.
RECURSIVE DealPlayers(_, _, _)
DealPlayers(playerData, deck, handSize) ==
    IF Len(playerData) = 0 THEN [players |-> <<>>, deck |-> deck]
    ELSE LET pop  == PopCards(deck, handSize)
             rest == DealPlayers(Tail(playerData), pop.rest, handSize)
         IN  [players |-> << [id |-> Head(playerData).id,
                              name |-> Head(playerData).name,
                              hand |-> SortHand(pop.popped),
                              isCurrentPlayer |-> FALSE,
                              isConnected |-> TRUE] >> \o rest.players,
              deck |-> rest.deck]

\* The result of an engine call: ok = it returned, error = the message of
\* the Error it threw, state = what the caller's state object holds after
\* the call (the returned state, or the argument when the call threw).
Returned(s) == [ok |-> TRUE, error |-> "", state |-> s]
Threw(msg, s) == [ok |-> FALSE, error |-> msg, state |-> s]

InitializeGame(roomId, playerData, run) ==
    IF Len(playerData) < 1 \/ Len(playerData) > MaxPlayers
    THEN Threw("Invalid number of players", NoGame)
    ELSE LET dealt == DealPlayers(playerData, CreateDeck(run),
                                  GetStartingHandSize(Len(playerData)))
             piles == CreateInitialPiles
             start == DetermineStartingPlayer(dealt.players, piles)
         IN  Returned([id |-> roomId,
                       status |-> "playing",
                       players |-> [dealt.players EXCEPT ![start].isCurrentPlayer = TRUE],
                       currentPlayerId |-> dealt.players[start].id,
                       piles |-> piles,
                       deck |-> dealt.deck,
                       cardsPlayed |-> 0,
                       minCardsToPlay |-> 2,
                       isDeckEmpty |-> FALSE,
                       moveHistory |-> <<>>,
                       canUndo |-> FALSE,
                       maxPlayers |-> MaxPlayers])

\* initializeGame of dist/game/GameEngine.js, the build that dist/server.js
\* loads: the player at index 0 starts.
InitializeGameCompiled(roomId, playerData, run) ==
    IF Len(playerData) < 1 \/ Len(playerData) > MaxPlayers
    THEN Threw("Invalid number of players", NoGame)
    ELSE LET dealt == DealPlayers(playerData, CreateDeck(run),
                                  GetStartingHandSize(Len(playerData)))
         IN  Returned([id |-> roomId,
                       status |-> "playing",
                       players |-> [i \in DOMAIN dealt.players |->
                                       [dealt.players[i] EXCEPT !.isCurrentPlayer = (i = 1)]],
                       currentPlayerId |-> dealt.players[1].id,
                       piles |-> CreateInitialPiles,
                       deck |-> dealt.deck,
                       cardsPlayed |-> 0,
                       minCardsToPlay |-> 2,
                       isDeckEmpty |-> FALSE,
                       moveHistory |-> <<>>,
                       canUndo |-> FALSE,
                       maxPlayers |-> MaxPlayers])

(***************************************************************************)
(* GameEngine.checkGameStatus                                              *)
(***************************************************************************)
\* Array.prototype.findIndex on the players / piles: 1-based, 0 = not found.
PlayerIndex(players, playerId) ==
    IF \E i \in 1..Len(players) : players[i].id = playerId
    THEN CHOOSE i \in 1..Len(players) :
            /\ players[i].id = playerId
            /\ \A k \in 1..(i - 1) : players[k].id # playerId
    ELSE 0

PileIndex(piles, pileId) ==
    IF \E i \in 1..Len(piles) : piles[i].id = pileId
    THEN CHOOSE i \in 1..Len(piles) :
            /\ piles[i].id = pileId
            /\ \A k \in 1..(i - 1) : piles[k].id # pileId
    ELSE 0

\* hand.findIndex(c => c.id === cardId)
CardIndex(hand, cardId) ==
    IF \E i \in 1..Len(hand) : hand[i] = cardId
    THEN CHOOSE i \in 1..Len(hand) :
            /\ hand[i] = cardId
            /\ \A k \in 1..(i - 1) : hand[k] # cardId
    ELSE 0

TotalCardsInHands(players) == SumSeq([i \in 1..Len(players) |-> Len(players[i].hand)])

\* A status check that looks for a loss before it looks for the win.
CheckGameStatusLossFirst(gameState) ==
    LET cur == PlayerIndex(gameState.players, gameState.currentPlayerId)
    IN  IF cur # 0 /\ ~HasValidMoves(gameState.players[cur], gameState.piles)
        THEN "lost"
        ELSE IF TotalCardsInHands(gameState.players) = 0 /\ Len(gameState.deck) = 0
             THEN "won"
             ELSE "playing"

CheckGameStatus(gameState) ==
    IF TotalCardsInHands(gameState.players) = 0 /\ Len(gameState.deck) = 0
    THEN "won"
    ELSE LET cur == PlayerIndex(gameState.players, gameState.currentPlayerId)
         IN  IF cur # 0 /\ ~HasValidMoves(gameState.players[cur], gameState.piles)
             THEN "lost"
             ELSE "playing"

(***************************************************************************)
(* GameEngine.saveStateToHistory / playCard                                *)
(***************************************************************************)
\* moveHistory.slice(-MaxHistory)
LastEntries(history, n) ==
    IF Len(history) > n THEN SubSeq(history, Len(history) - n + 1, Len(history))
    ELSE history

\* saveStateToHistory with slice(0, 10): at the cap the new snapshot is the
\* one that is dropped.
SaveStateToHistoryKeepsOldest(gameState) ==
    LET stateToSave == [gameState EXCEPT !.moveHistory = <<>>, !.canUndo = FALSE]
        history == Append(gameState.moveHistory, stateToSave)
    IN  [gameState EXCEPT
            !.moveHistory = SubSeq(history, 1, Min(Len(history), MaxHistory)),
            !.canUndo = TRUE]

SaveStateToHistory(gameState) ==
    LET stateToSave == [gameState EXCEPT !.moveHistory = <<>>, !.canUndo = FALSE]
    IN  [gameState EXCEPT
            !.moveHistory = LastEntries(Append(gameState.moveHistory, stateToSave), MaxHistory),
            !.canUndo = TRUE]

\* A splice that removes nothing: the played card stays in the hand.
RemoveAtKeepsCard(s, i) == s

\* hand.splice(cardIndex, 1)
RemoveAt(s, i) == SubSeq(s, 1, i - 1) \o SubSeq(s, i + 1, Len(s))

\* The checks of playCard without the turn check.
PlayErrorNoTurnCheck(newState, playerId, cardId, pileId) ==
    LET pi == PlayerIndex(newState.players, playerId)
        ki == PileIndex(newState.piles, pileId)
    IN  IF pi = 0 \/ ki = 0 THEN "Invalid player or pile"
        ELSE LET ci == CardIndex(newState.players[pi].hand, cardId)
             IN  IF ci = 0 THEN "Card not in hand"
                 ELSE IF ~CanPlayCard(newState.players[pi].hand[ci], newState.piles[ki])
                      THEN "Invalid move"
                      ELSE ""

\* The checks of playCard in the order of the code: the message of the
\* Error that is thrown, or "" when the move is accepted.
PlayError(newState, playerId, cardId, pileId) ==
    LET pi == PlayerIndex(newState.players, playerId)
        ki == PileIndex(newState.piles, pileId)
    IN  IF pi = 0 \/ ki = 0 THEN "Invalid player or pile"
        ELSE IF playerId # newState.currentPlayerId THEN "Not your turn"
        ELSE LET ci == CardIndex(newState.players[pi].hand, cardId)
             IN  IF ci = 0 THEN "Card not in hand"
                 ELSE IF ~CanPlayCard(newState.players[pi].hand[ci], newState.piles[ki])
                      THEN "Invalid move"
                      ELSE ""

\* A play that puts the card on the pile and leaves the pile's current value
\* as it was.
ApplyPlayKeepsValue(newState, playerId, cardId, pileId) ==
    LET pi == PlayerIndex(newState.players, playerId)
        ki == PileIndex(newState.piles, pileId)
        ci == CardIndex(newState.players[pi].hand, cardId)
        card == newState.players[pi].hand[ci]
    IN  [newState EXCEPT
            !.players[pi].hand = RemoveAt(@, ci),
            !.piles[ki].cards = Append(@, card),
            !.cardsPlayed = @ + 1]

\* The mutation of the copy once the move is accepted.
ApplyPlay(newState, playerId, cardId, pileId) ==
    LET pi == PlayerIndex(newState.players, playerId)
        ki == PileIndex(newState.piles, pileId)
        ci == CardIndex(newState.players[pi].hand, cardId)
        card == newState.players[pi].hand[ci]
        deckNowEmpty == Len(newState.deck) = 0 /\ ~newState.isDeckEmpty
    IN  [newState EXCEPT
            !.players[pi].hand = RemoveAt(@, ci),
            !.piles[ki].cards = Append(@, card),
            !.piles[ki].currentValue = card,
            !.cardsPlayed = @ + 1,
            !.isDeckEmpty = IF deckNowEmpty THEN TRUE ELSE @,
            !.minCardsToPlay = IF deckNowEmpty THEN 1 ELSE @]

PlayCard(gameState, playerId, cardId, pileId) ==
    LET newState == SaveStateToHistory(gameState)
        error == PlayError(newState, playerId, cardId, pileId)
    IN  IF error # "" THEN Threw(error, gameState)
        ELSE Returned(ApplyPlay(newState, playerId, cardId, pileId))

(***************************************************************************)
(* GameEngine.endTurn                                                      *)
(***************************************************************************)
\* A draw that leaves the drawn cards at the end of the hand, unsorted.
DrawCardsUnsorted(hand, deck, target) ==
    LET pop == PopCards(deck, IF Len(hand) < target THEN target - Len(hand) ELSE 0)
    IN  [hand |-> hand \o pop.popped, deck |-> pop.rest]

\* The draw loop: pop while the hand is below the target and the deck is
\* not empty, then sort the hand.
DrawCards(hand, deck, target) ==
    LET pop == PopCards(deck, IF Len(hand) < target THEN target - Len(hand) ELSE 0)
    IN  [hand |-> SortHand(hand \o pop.popped), deck |-> pop.rest]

\* A turn advance that forgets to clear the flag of the player who ended.
AdvanceTurnKeepsFlag(players, cur, next) == [players EXCEPT ![next].isCurrentPlayer = TRUE]

\* players[cur].isCurrentPlayer = false; players[next].isCurrentPlayer = true
AdvanceTurn(players, cur, next) ==
    [[players EXCEPT ![cur].isCurrentPlayer = FALSE] EXCEPT ![next].isCurrentPlayer = TRUE]

\* endTurn that asks for one played card whatever minCardsToPlay is.
EndTurnAfterOneCard(gameState) ==
    IF gameState.cardsPlayed < 1
    THEN Threw("Must play minimum cards", gameState)
    ELSE LET n    == Len(gameState.players)
             cur  == PlayerIndex(gameState.players, gameState.currentPlayerId)
             draws == ~gameState.isDeckEmpty /\ Len(gameState.deck) > 0
             drawn == DrawCards(gameState.players[cur].hand, gameState.deck,
                                GetStartingHandSize(n))
             next == (cur % n) + 1
             afterDraw == IF draws
                          THEN [gameState EXCEPT !.players[cur].hand = drawn.hand,
                                                 !.deck = drawn.deck]
                          ELSE gameState
             flags == AdvanceTurn(afterDraw.players, cur, next)
             moved == [afterDraw EXCEPT !.players = flags,
                                        !.currentPlayerId = flags[next].id,
                                        !.cardsPlayed = 0]
         IN  Returned([moved EXCEPT !.status = CheckGameStatus(moved),
                                    !.canUndo = FALSE])

EndTurn(gameState) ==
    IF gameState.cardsPlayed < gameState.minCardsToPlay
    THEN Threw("Must play minimum cards", gameState)
    ELSE LET n    == Len(gameState.players)
             cur  == PlayerIndex(gameState.players, gameState.currentPlayerId)
             draws == ~gameState.isDeckEmpty /\ Len(gameState.deck) > 0
             drawn == DrawCards(gameState.players[cur].hand, gameState.deck,
                                GetStartingHandSize(n))
             next == (cur % n) + 1
             afterDraw == IF draws
                          THEN [gameState EXCEPT !.players[cur].hand = drawn.hand,
                                                 !.deck = drawn.deck]
                          ELSE gameState
             flags == AdvanceTurn(afterDraw.players, cur, next)
             moved == [afterDraw EXCEPT !.players = flags,
                                        !.currentPlayerId = flags[next].id,
                                        !.cardsPlayed = 0]
         IN  Returned([moved EXCEPT !.status = CheckGameStatus(moved),
                                    !.canUndo = FALSE])

(***************************************************************************)
(* GameEngine.undoLastMove                                                 *)
(***************************************************************************)
UndoLastMove(gameState) ==
    IF ~gameState.canUndo \/ Len(gameState.moveHistory) = 0
    THEN Threw("Cannot undo", gameState)
    ELSE LET previousState == gameState.moveHistory[Len(gameState.moveHistory)]
             remaining == SubSeq(gameState.moveHistory, 1, Len(gameState.moveHistory) - 1)
         IN  Returned([previousState EXCEPT !.moveHistory = remaining,
                                            !.canUndo = Len(remaining) > 0])

(***************************************************************************)
(* GameEngine.createClientGameState                                        *)
(***************************************************************************)
\* A public player record that carries the hand instead of its size.
PublicPlayerWithHand(p) ==
    [id |-> p.id, name |-> p.name, handCount |-> p.hand,
     isCurrentPlayer |-> p.isCurrentPlayer, isConnected |-> p.isConnected]

\* serverState.players.map(p => ({ id, name, handCount, isCurrentPlayer, isConnected }))
PublicPlayer(p) ==
    [id |-> p.id, name |-> p.name, handCount |-> Len(p.hand),
     isCurrentPlayer |-> p.isCurrentPlayer, isConnected |-> p.isConnected]

CreateClientGameState(serverState, playerId) ==
    LET pi == PlayerIndex(serverState.players, playerId)
    IN  [id |-> serverState.id,
         status |-> serverState.status,
         players |-> [i \in 1..Len(serverState.players) |-> PublicPlayer(serverState.players[i])],
         currentPlayerId |-> serverState.currentPlayerId,
         piles |-> serverState.piles,
         deckCount |-> Len(serverState.deck),
         cardsPlayed |-> serverState.cardsPlayed,
         minCardsToPlay |-> serverState.minCardsToPlay,
         isDeckEmpty |-> serverState.isDeckEmpty,
         canUndo |-> serverState.canUndo,
         maxPlayers |-> serverState.maxPlayers,
         yourHand |-> IF pi # 0 THEN serverState.players[pi].hand ELSE <<>>,
         yourId |-> playerId]

(***************************************************************************)
(* The rules engine as a state machine: one caller holds one game state    *)
(* and calls initializeGame, playCard, endTurn and undoLastMove on it.     *)
(***************************************************************************)
RoomCode == "ROOM01"

AllPlayerIds == <<"p1", "p2", "p3", "p4", "p5", "p6">>

NameOf(playerId) == "name-" \o playerId

PlayerData(n) == [i \in 1..n |-> [id |-> AllPlayerIds[i], name |-> NameOf(AllPlayerIds[i])]]

PileIds == {"ascending-1", "ascending-2", "descending-1", "descending-2"}

CurrentHand(gs) == gs.players[PlayerIndex(gs.players, gs.currentPlayerId)].hand

\* Positions the model reaches by evaluating the engine on a fixed line of
\* play, so that the late game is within MaxSteps of the initial states.
\* A move is <<"low", pileId>> or <<"high", pileId>> (the current player
\* plays the lowest / highest card of the hand) or <<"end">>.
ApplyMove(gs, move) ==
    CASE move[1] = "end"  -> EndTurn(gs).state
      [] move[1] = "low"  -> PlayCard(gs, gs.currentPlayerId, CurrentHand(gs)[1], move[2]).state
      [] move[1] = "high" -> PlayCard(gs, gs.currentPlayerId,
                                      CurrentHand(gs)[Len(CurrentHand(gs))], move[2]).state

RECURSIVE ApplyMoves(_, _)
ApplyMoves(gs, moves) ==
    IF gs = NoGame \/ Len(moves) = 0 THEN gs
    ELSE IF Len(moves) = 1 THEN ApplyMove(gs, moves[1])
    ELSE LET half == Len(moves) \div 2
         IN  ApplyMoves(ApplyMoves(gs, SubSeq(moves, 1, half)),
                        SubSeq(moves, half + 1, Len(moves)))

Repeat(moves, k) == [i \in 1..(k * Len(moves)) |-> moves[((i - 1) % Len(moves)) + 1]]

HighTurn == << <<"high", "descending-1">>, <<"high", "descending-1">>, <<"end">> >>

\* Two players, two cards played by the starting player: the turn can end.
MidTurn ==
    ApplyMoves(InitializeGame(RoomCode, PlayerData(2), "keep").state,
               << <<"high", "descending-1">>, <<"high", "descending-1">> >>)

\* The turn of MidTurn has ended and the second player has played a card.
NextTurn == ApplyMoves(MidTurn, << <<"end">>, <<"low", "descending-1">> >>)

\* One player holding 2, 3, 98, 99 has blocked three piles with them.
Blocking ==
    ApplyMoves(InitializeGame(RoomCode, PlayerData(1), "extremes").state,
               << <<"high", "ascending-1">>, <<"high", "ascending-2">>,
                  <<"low", "descending-1">> >>)

\* One player, deck left in order (popped from 99 down), always playing the
\* two highest cards on descending-1: after 45 turns the deck is empty and
\* the hand is 2..9; six more cards are played in the 46th turn.
LastCards ==
    ApplyMoves(InitializeGame(RoomCode, PlayerData(1), "keep").state,
               Repeat(HighTurn, 45) \o Repeat(<< <<"high", "descending-1">> >>, 6))

\* The same game in its 45th turn, two cards played: the draw of the coming
\* endTurn takes the last two cards of the deck.
LastDraw ==
    ApplyMoves(InitializeGame(RoomCode, PlayerData(1), "keep").state,
               Repeat(HighTurn, 44) \o Repeat(<< <<"high", "descending-1">> >>, 2))

StartStates == {NoGame, MidTurn, NextTurn, Blocking, LastCards, LastDraw}

NoCall == [op |-> "none", ok |-> TRUE, error |-> ""]

Call(op, r) == [op |-> op, ok |-> r.ok, error |-> r.error]

Took(r) == IF r.ok THEN 1 ELSE 0

\* The card ids a caller tries: the lowest and the highest card of the
\* current player's hand, and a card that is not in that hand.
CardInputs(gs) ==
    LET hand == CurrentHand(gs)
    IN  (IF Len(hand) > 0 THEN {hand[1], hand[Len(hand)]} ELSE {})
        \cup (IF Len(gs.deck) > 0 THEN {gs.deck[Len(gs.deck)]} ELSE {MinCardValue - 1})

\* The player ids a caller tries: the current player, the player seated
\* after the current one, and an id that is not in the game.
PlayerInputs(gs) ==
    LET cur == PlayerIndex(gs.players, gs.currentPlayerId)
    IN  {gs.currentPlayerId, gs.players[(cur % Len(gs.players)) + 1].id, "nobody"}

PileInputs == PileIds \cup {"no-pile"}

\* The playCard calls the model makes: the current player with the lowest
\* or highest card on each pile, and one call for each way an id can be
\* wrong (player not in the game, unknown pile, player out of turn, card
\* not in the hand).
PlayInputs(gs) ==
    LET hand == CurrentHand(gs)
        own  == IF Len(hand) > 0 THEN {hand[1], hand[Len(hand)]} ELSE {}
        any  == CHOOSE c \in CardInputs(gs) : TRUE
        cur  == PlayerIndex(gs.players, gs.currentPlayerId)
    IN  ({gs.currentPlayerId} \X own \X PileIds)
        \cup {<<"nobody", any, "ascending-1">>,
              <<gs.currentPlayerId, any, "no-pile">>,
              <<gs.players[(cur % Len(gs.players)) + 1].id, any, "ascending-1">>}
        \cup ({gs.currentPlayerId} \X (CardInputs(gs) \ own) \X {"ascending-1"})

(***************************************************************************)
(* The room / connection coordinator (src/dist/server.js) and its store    *)
(* (src/dist/services/RedisService.js).                                    *)
(*                                                                         *)
(* Room objects live in a heap: a handler keeps its reference `room`       *)
(* across an await while this.rooms may come to hold another object for    *)
(* the same code.  A JavaScript Map is a sequence of [key, value] entries  *)
(* in insertion order.  A store command takes effect when it is issued     *)
(* (one connection, commands served in order); the handler that awaits     *)
(* its reply resumes in a later step.  A command issued while the client   *)
(* is not connected fails and yields the value of its catch path.          *)
(* dealCards deals with InitializeGame above; the cleanup timer and the    *)
(* HTTP endpoints other than the start endpoint are not part of this       *)
(* model.                                                                  *)
(***************************************************************************)
RoomIds == {"ROOM01"}

Sockets == {"s1", "s2", "s3"}

ObjIds == 1..MaxObjects

NoRef == 0

NoRoom == [id |-> ""]

NoBinding == [playerId |-> "", roomId |-> ""]

NoMetadata == [id |-> ""]

MapHas(m, k) == \E i \in 1..Len(m) : m[i].key = k

MapGet(m, k) == m[CHOOSE i \in 1..Len(m) : m[i].key = k].value

MapSet(m, k, v) ==
    IF MapHas(m, k)
    THEN [i \in 1..Len(m) |-> IF m[i].key = k THEN [key |-> k, value |-> v] ELSE m[i]]
    ELSE Append(m, [key |-> k, value |-> v])

MapDelete(m, k) == SelectSeq(m, LAMBDA e : e.key # k)

MapValues(m) == [i \in 1..Len(m) |-> m[i].value]

\* A new room object (handleCreateRoom, lines 422-432).
NewRoom(roomId, now) ==
    [id |-> roomId, gameState |-> NoGame, players |-> <<>>, connections |-> <<>>,
     chatMessages |-> <<>>, maxPlayers |-> MaxPlayers, isStarted |-> FALSE,
     createdAt |-> now, lastActivity |-> now]

EmptyStore ==
    [r \in RoomIds |-> [metadata |-> NoMetadata, players |-> <<>>,
                        gameState |-> NoGame, chat |-> <<>>]]

\* The server after construction: no room, no binding, an empty store and
\* every socket connected but not yet bound.  Date.now() reads 9 while the
\* start states are built and 10 afterwards; uuid is the next message id.
EmptyServer ==
    [rooms |-> [r \in RoomIds |-> NoRef],
     heap |-> [o \in ObjIds |-> NoRoom],
     playerConnections |-> [s \in Sockets |-> NoBinding],
     readyState |-> [s \in Sockets |-> "OPEN"],
     store |-> EmptyStore,
     connected |-> TRUE,
     tasks |-> EmptyBag,
     sent |-> <<>>,
     outcome |-> "",
     now |-> 9,
     uuid |-> 0]

RoomOf(S, roomId) == S.heap[S.rooms[roomId]]

IsResident(S, roomId) == S.rooms[roomId] # NoRef

IsOpen(S, ws) == S.readyState[ws] = "OPEN"

\* ws.send: a closed socket delivers nothing.
Send(S, ws, msg) ==
    IF IsOpen(S, ws) THEN [S EXCEPT !.sent = Append(@, [to |-> ws, msg |-> msg])] ELSE S

\* --- RedisService ---------------------------------------------------------
\* A number written to a hash field with its last digit only.
TextLastDigit(n) == <<n % 10>>

\* A hash field holds text: a number is written as its decimal digits and
\* read back with Number().
RECURSIVE Text(_)
Text(n) == IF n < 10 THEN <<n>> ELSE Append(Text(n \div 10), n % 10)

RECURSIVE Number(_)
Number(text) ==
    IF Len(text) = 0 THEN 0
    ELSE 10 * Number(SubSeq(text, 1, Len(text) - 1)) + text[Len(text)]

SaveRoomMetadata(S, roomId, metadata) ==
    IF S.connected
    THEN [S EXCEPT !.store[roomId].metadata =
              [id |-> metadata.id, maxPlayers |-> Text(metadata.maxPlayers),
               isStarted |-> Text(IF metadata.isStarted THEN 1 ELSE 0),
               createdAt |-> Text(metadata.createdAt),
               lastActivity |-> Text(metadata.lastActivity)]]
    ELSE S

GetRoomMetadata(S, roomId) ==
    LET metadata == S.store[roomId].metadata
    IN  IF ~S.connected \/ metadata = NoMetadata THEN NoMetadata
        ELSE [id |-> metadata.id, maxPlayers |-> Number(metadata.maxPlayers),
              isStarted |-> metadata.isStarted = Text(1),
              createdAt |-> Number(metadata.createdAt),
              lastActivity |-> Number(metadata.lastActivity)]

SavePlayers(S, roomId, players) ==
    IF S.connected THEN [S EXCEPT !.store[roomId].players = players] ELSE S

GetPlayers(S, roomId) ==
    IF S.connected THEN S.store[roomId].players ELSE <<>>

SaveGameState(S, roomId, gameState) ==
    IF S.connected THEN [S EXCEPT !.store[roomId].gameState = gameState] ELSE S

ClearGameState(S, roomId) ==
    IF S.connected THEN [S EXCEPT !.store[roomId].gameState = NoGame] ELSE S

GetGameState(S, roomId) ==
    IF S.connected THEN S.store[roomId].gameState ELSE NoGame

SetChatMessages(S, roomId, messages) ==
    IF S.connected THEN [S EXCEPT !.store[roomId].chat = messages] ELSE S

GetChatMessages(S, roomId) ==
    IF S.connected THEN S.store[roomId].chat ELSE <<>>

\* rPush followed by lTrim(-100, -1).
AppendChatMessage(S, roomId, message) ==
    IF S.connected
    THEN [S EXCEPT !.store[roomId].chat = LastEntries(Append(@, message), MaxChatHistory)]
    ELSE S

\* The three reads getRoom issues together once the metadata has arrived.
GetRoomParts(S, roomId, metadata) ==
    [metadata |-> metadata,
     players |-> GetPlayers(S, roomId),
     gameState |-> GetGameState(S, roomId),
     chatMessages |-> GetChatMessages(S, roomId)]

\* --- GameServer helpers ---------------------------------------------------
GetStoredPlayers(room) == MapValues(room.players)

AllParts == [metadata |-> TRUE, players |-> TRUE, gameState |-> TRUE, chat |-> TRUE]

NoChat == [AllParts EXCEPT !.chat = FALSE]

\* persistRoom up to its await: every selected part is written from the
\* room object the caller holds.
PersistRoom(S, ref, options) ==
    LET room == S.heap[ref]
        S1 == IF options.metadata
              THEN SaveRoomMetadata(S, room.id, [id |-> room.id, maxPlayers |-> room.maxPlayers,
                                                 isStarted |-> room.isStarted,
                                                 createdAt |-> room.createdAt,
                                                 lastActivity |-> room.lastActivity])
              ELSE S
        S2 == IF options.players THEN SavePlayers(S1, room.id, GetStoredPlayers(room)) ELSE S1
        S3 == IF ~options.gameState THEN S2
              ELSE IF room.gameState # NoGame THEN SaveGameState(S2, room.id, room.gameState)
              ELSE ClearGameState(S2, room.id)
    IN  IF options.chat THEN SetChatMessages(S3, room.id, room.chatMessages) ELSE S3

\* forEachActiveConnection: the entries of closed sockets are dropped from
\* the room and from playerConnections; the others are visited in order.
ClosedEntries(S, room) == SelectSeq(room.connections, LAMBDA e : ~IsOpen(S, e.value))

ActiveEntries(S, room) == SelectSeq(room.connections, LAMBDA e : IsOpen(S, e.value))

\* forEachActiveConnection without the pruning of lines 616-621 and 626-628.
PruneConnectionsKeepsClosed(S, ref) ==
    LET room == S.heap[ref]
    IN  [S EXCEPT !.heap[ref].connections = room.connections,
                  !.playerConnections = [s \in Sockets |-> @[s]]]

PruneConnections(S, ref) ==
    LET room == S.heap[ref]
        closed == SeqToSet(MapValues(ClosedEntries(S, room)))
    IN  [S EXCEPT !.heap[ref].connections = ActiveEntries(S, room),
                  !.playerConnections = [s \in Sockets |-> IF s \in closed THEN NoBinding ELSE @[s]]]

RECURSIVE SendAll(_, _)
SendAll(S, msgs) ==
    IF Len(msgs) = 0 THEN S ELSE SendAll(Send(S, Head(msgs).to, Head(msgs).msg), Tail(msgs))

BroadcastGameState(S, roomId) ==
    IF ~IsResident(S, roomId) \/ RoomOf(S, roomId).gameState = NoGame THEN S
    ELSE LET room == RoomOf(S, roomId)
             active == ActiveEntries(S, room)
             msgs == [i \in 1..Len(active) |->
                        [to |-> active[i].value,
                         msg |-> [type |-> "game_state_update",
                                  gameState |-> CreateClientGameState(room.gameState, active[i].key),
                                  chatMessages |-> room.chatMessages]]]
         IN  SendAll(PruneConnections(S, S.rooms[roomId]), msgs)

BroadcastToRoom(S, roomId, message, excludePlayerId) ==
    IF ~IsResident(S, roomId) THEN S
    ELSE LET active == SelectSeq(ActiveEntries(S, RoomOf(S, roomId)),
                                 LAMBDA e : e.key # excludePlayerId)
             msgs == [i \in 1..Len(active) |-> [to |-> active[i].value, msg |-> message]]
         IN  SendAll(PruneConnections(S, S.rooms[roomId]), msgs)

\* --- Handlers in flight -----------------------------------------------------
\* A handler suspended at an await: its position and its local variables.
NoSnapshot ==
    [metadata |-> NoMetadata, players |-> <<>>, gameState |-> NoGame, chatMessages |-> <<>>]

NoChatMessage == [id |-> 0, playerId |-> "", timestamp |-> 0, text |-> ""]

\* The message object a client sends: a text, and an id, a sender and a
\* time of its own choosing.
Hello == [id |-> 77, playerId |-> "p2", timestamp |-> 1, text |-> "hello"]

Task(kind, pc, ws, roomId, playerId, room) ==
    [kind |-> kind, pc |-> pc, ws |-> ws, roomId |-> roomId, playerId |-> playerId,
     room |-> room, snapshot |-> NoSnapshot, storedRoom |-> FALSE, isRejoining |-> FALSE,
     playerInGame |-> FALSE, newGameState |-> NoGame, chatMessage |-> NoChatMessage,
     appended |-> FALSE]

Suspend(S, t) == [S EXCEPT !.tasks = @ (+) SetToBag({t})]

Finish(S, t) == [S EXCEPT !.tasks = @ (-) SetToBag({t})]

Goto(S, t, u) == Suspend(Finish(S, t), u)

Outcome(S, o) == [S EXCEPT !.outcome = o]

FreeRefs(S) == {o \in ObjIds : S.heap[o] = NoRoom}

NewRef(S) == CHOOSE o \in FreeRefs(S) : \A p \in FreeRefs(S) : o <= p

\* Room objects no handler and no map entry refers to are reclaimed.
Collect(S) ==
    LET live == {S.rooms[r] : r \in RoomIds} \cup {t.room : t \in BagToSet(S.tasks)}
    IN  [S EXCEPT !.heap = [o \in ObjIds |-> IF o \in live THEN @[o] ELSE NoRoom]]

\* --- handleCreateRoom -------------------------------------------------------
HandleCreateRoom(S, ws, roomId, playerId) ==
    LET ref  == NewRef(S)
        room == [NewRoom(roomId, S.now) EXCEPT
                   !.players = MapSet(<<>>, playerId, [id |-> playerId, name |-> NameOf(playerId)]),
                   !.connections = MapSet(<<>>, playerId, ws)]
        S1 == [S EXCEPT !.heap[ref] = room,
                        !.playerConnections[ws] = [playerId |-> playerId, roomId |-> roomId],
                        !.rooms[roomId] = ref]
    IN  Outcome(Suspend(PersistRoom(S1, ref, AllParts),
                        Task("create_room", "persist", ws, roomId, playerId, ref)), "created")

CreateRoomFinish(S, t) ==
    Send(Finish(S, t), t.ws,
         [type |-> "room_created", roomId |-> t.roomId, playerId |-> t.playerId,
          players |-> <<[id |-> t.playerId, name |-> NameOf(t.playerId)]>>])

\* --- restoreRoomFromStorage / hydrateRoomFromPersistence --------------------
PlayerMap(players) ==
    [i \in 1..Len(players) |-> [key |-> players[i].id,
                                value |-> [id |-> players[i].id, name |-> players[i].name]]]

RestoreRoomFromStorage(S, ref, snapshot) ==
    [S EXCEPT !.heap[ref] =
                  [id |-> snapshot.metadata.id, gameState |-> snapshot.gameState,
                   players |-> PlayerMap(snapshot.players), connections |-> <<>>,
                   chatMessages |-> snapshot.chatMessages,
                   maxPlayers |-> snapshot.metadata.maxPlayers,
                   isStarted |-> snapshot.metadata.isStarted,
                   createdAt |-> snapshot.metadata.createdAt,
                   lastActivity |-> snapshot.metadata.lastActivity],
              !.rooms[snapshot.metadata.id] = ref]

\* hydrateRoomFromPersistence once the snapshot has arrived (lines 248-272).
Hydrate(S, ref, snapshot) ==
    LET room == S.heap[ref]
        fromSnapshot == PlayerMap(snapshot.players)
        players == fromSnapshot \o SelectSeq(room.players, LAMBDA e : ~MapHas(fromSnapshot, e.key))
        stale == SelectSeq(room.connections, LAMBDA e : ~MapHas(players, e.key))
        staleSockets == SeqToSet(MapValues(stale))
    IN  [S EXCEPT !.heap[ref] =
                      [room EXCEPT !.maxPlayers = snapshot.metadata.maxPlayers,
                                   !.isStarted = snapshot.metadata.isStarted,
                                   !.createdAt = snapshot.metadata.createdAt,
                                   !.lastActivity = snapshot.metadata.lastActivity,
                                   !.chatMessages = snapshot.chatMessages,
                                   !.gameState = snapshot.gameState,
                                   !.players = players,
                                   !.connections = SelectSeq(@, LAMBDA e : MapHas(players, e.key))],
                  !.playerConnections =
                      [s \in Sockets |-> IF s \in staleSockets THEN NoBinding ELSE @[s]]]

\* --- handleJoinRoom ---------------------------------------------------------
ErrorMessage(text) == [type |-> "error", error |-> text]

\* Lines 343-358 up to the first await: the room is looked up in memory and
\* the store is asked for the metadata, by getRoom when the room is not
\* resident and by hydrateRoomFromPersistence when it is.
HandleJoinRoom(S, ws, roomId, playerId) ==
    LET metadata == GetRoomMetadata(S, roomId)
        t == [Task("join_room",
                   IF IsResident(S, roomId) THEN "hydrate.metadata" ELSE "getRoom.metadata",
                   ws, roomId, playerId, S.rooms[roomId])
                EXCEPT !.snapshot.metadata = metadata]
    IN  Outcome(Suspend(S, t), "pending")

\* Lines 359-387: capacity check, roster / connection / binding update,
\* reconnection to the game, and persistRoom up to its await.
JoinBody(S, t) ==
    LET room == S.heap[t.room]
        isRejoining == MapHas(room.players, t.playerId)
        inGame == room.gameState # NoGame /\ PlayerIndex(room.gameState.players, t.playerId) # 0
        joined == [room EXCEPT
                     !.players = MapSet(@, t.playerId, [id |-> t.playerId, name |-> NameOf(t.playerId)]),
                     !.connections = MapSet(@, t.playerId, t.ws),
                     !.lastActivity = S.now,
                     !.gameState = IF inGame
                                   THEN [@ EXCEPT !.players[PlayerIndex(@.players, t.playerId)].isConnected = TRUE]
                                   ELSE @]
        S1 == [S EXCEPT !.heap[t.room] = joined,
                        !.playerConnections[t.ws] = [playerId |-> t.playerId, roomId |-> t.roomId]]
        S2 == IF inGame
              THEN BroadcastToRoom(S1, t.roomId,
                                   [type |-> "player_reconnected", playerId |-> t.playerId,
                                    playerName |-> NameOf(t.playerId)], t.playerId)
              ELSE S1
    IN  IF ~isRejoining /\ Len(room.players) >= room.maxPlayers
        THEN Send(Finish(S, t), t.ws, ErrorMessage("Room is full"))
        ELSE Goto(PersistRoom(S2, t.room, NoChat), t,
                  [t EXCEPT !.pc = "persist", !.isRejoining = isRejoining, !.playerInGame = inGame])

\* Lines 389-412, after persistRoom has returned.
JoinFinish(S, t) ==
    LET room == S.heap[t.room]
        S1 == Send(Finish(S, t), t.ws,
                   [type |-> "room_joined", roomId |-> t.roomId, playerId |-> t.playerId,
                    players |-> GetStoredPlayers(room)])
        S2 == IF room.gameState # NoGame /\ t.playerInGame
              THEN Send(S1, t.ws, [type |-> "game_state_update",
                                   gameState |-> CreateClientGameState(room.gameState, t.playerId),
                                   chatMessages |-> room.chatMessages])
              ELSE S1
    IN  IF ~t.isRejoining
        THEN BroadcastToRoom(S2, t.roomId,
                             [type |-> "player_joined",
                              player |-> [id |-> t.playerId, name |-> NameOf(t.playerId)]], t.playerId)
        ELSE S2

\* handleJoinRoom resumed at the await it is suspended at.
JoinResume(S, t) ==
    CASE t.pc = "getRoom.metadata" ->
           IF t.snapshot.metadata = NoMetadata
           THEN Send(Finish(S, t), t.ws, ErrorMessage("Room not found"))
           ELSE Goto(S, t, [t EXCEPT !.pc = "getRoom.parts",
                                     !.snapshot = GetRoomParts(S, t.roomId, t.snapshot.metadata)])
      [] t.pc = "getRoom.parts" ->
           LET ref == NewRef(S)
           IN  Goto(RestoreRoomFromStorage(S, ref, t.snapshot), t,
                    [t EXCEPT !.pc = "hydrate.metadata", !.room = ref, !.storedRoom = TRUE,
                              !.snapshot = [NoSnapshot EXCEPT !.metadata = GetRoomMetadata(S, t.roomId)]])
      [] t.pc = "hydrate.metadata" ->
           IF t.snapshot.metadata = NoMetadata
           THEN JoinBody(S, t)
           ELSE Goto(S, t, [t EXCEPT !.pc = "hydrate.parts",
                                     !.snapshot = GetRoomParts(S, t.roomId, t.snapshot.metadata)])
      [] t.pc = "hydrate.parts" -> JoinBody(Hydrate(S, t.room, t.snapshot), t)
      [] t.pc = "persist" -> JoinFinish(S, t)

\* --- handleGameAction -------------------------------------------------------
ApplyAction(gameState, playerId, action) ==
    CASE action.type = "play_card" -> PlayCard(gameState, playerId, action.cardId, action.pileId)
      [] action.type = "end_turn"  -> EndTurn(gameState)
      [] action.type = "undo_move" -> UndoLastMove(gameState)

\* Lines 448-483 up to the await of persistRoom.
HandleGameAction(S, ws, action) ==
    LET connection == S.playerConnections[ws]
        ref == S.rooms[connection.roomId]
        r == ApplyAction(S.heap[ref].gameState, connection.playerId, action)
    IN  IF connection = NoBinding THEN Outcome(S, "dropped")
        ELSE IF ref = NoRef \/ S.heap[ref].gameState = NoGame THEN Outcome(S, "dropped")
        ELSE IF ~r.ok
        THEN Outcome(Send(S, ws, [type |-> "game_error", error |-> r.error]), "rejected")
        ELSE Outcome(Suspend(PersistRoom([S EXCEPT !.heap[ref].gameState = r.state,
                                                   !.heap[ref].lastActivity = S.now], ref, NoChat),
                             [Task("game_action", "persist", ws, connection.roomId,
                                   connection.playerId, ref)
                                EXCEPT !.newGameState = r.state]),
                     "applied")

\* Line 485, after persistRoom has returned.
GameActionFinish(S, t) == BroadcastGameState(Finish(S, t), t.roomId)

\* --- handleChatMessage ------------------------------------------------------
\* Lines 496-513 up to the await of appendChatMessage.
HandleChatMessage(S, ws, message) ==
    LET connection == S.playerConnections[ws]
        ref == S.rooms[connection.roomId]
        chatMessage == [message EXCEPT !.id = S.uuid,
                                       !.playerId = connection.playerId,
                                       !.timestamp = S.now]
    IN  IF connection = NoBinding \/ message = NoChatMessage THEN Outcome(S, "dropped")
        ELSE IF ref = NoRef THEN Outcome(S, "dropped")
        ELSE Outcome(Suspend(AppendChatMessage(S, connection.roomId, chatMessage),
                             [Task("chat_message", "append", ws, connection.roomId,
                                   connection.playerId, ref)
                                EXCEPT !.chatMessage = chatMessage, !.appended = S.connected]),
                     "accepted")

\* Lines 514-534, from the return of appendChatMessage on.
ChatResume(S, t) ==
    LET room == S.heap[t.room]
        pushed == LastEntries(Append(room.chatMessages, t.chatMessage), MaxChatHistory)
        local == [S EXCEPT !.heap[t.room].chatMessages = pushed,
                           !.heap[t.room].lastActivity = S.now]
        fetched == [S EXCEPT !.heap[t.room].chatMessages = t.snapshot.chatMessages,
                             !.heap[t.room].lastActivity = S.now]
    IN  CASE t.pc = "append" ->
               IF t.appended
               THEN Goto(S, t, [t EXCEPT !.pc = "fetch",
                                         !.snapshot.chatMessages = GetChatMessages(S, t.roomId)])
               ELSE Goto(PersistRoom(local, t.room, [AllParts EXCEPT !.gameState = FALSE]), t,
                         [t EXCEPT !.pc = "persist"])
          [] t.pc = "fetch" ->
               Goto(PersistRoom(fetched, t.room, [NoChat EXCEPT !.gameState = FALSE]), t,
                    [t EXCEPT !.pc = "persist"])
          [] t.pc = "persist" ->
               BroadcastToRoom(Finish(S, t), t.roomId,
                               [type |-> "chat_message", message |-> t.chatMessage], "")

\* --- handlePlayerDisconnection ----------------------------------------------
\* Lines 554-598 up to the await of persistRoom.
HandlePlayerDisconnection(S, ws, removeCompletely) ==
    LET connection == S.playerConnections[ws]
        ref == S.rooms[connection.roomId]
        room == S.heap[ref]
        hasPlayer == MapHas(room.players, connection.playerId)
        shouldRemovePlayer == removeCompletely \/ room.gameState = NoGame
        gamePlayer == IF room.gameState = NoGame THEN 0
                      ELSE PlayerIndex(room.gameState.players, connection.playerId)
        left == [room EXCEPT
                   !.connections = MapDelete(@, connection.playerId),
                   !.lastActivity = S.now,
                   !.players = IF hasPlayer /\ shouldRemovePlayer
                               THEN MapDelete(@, connection.playerId) ELSE @,
                   !.gameState = IF gamePlayer # 0
                                 THEN [@ EXCEPT !.players[gamePlayer].isConnected = FALSE]
                                 ELSE @]
        S1 == [S EXCEPT !.heap[ref] = left]
        disconnected == [type |-> "player_disconnected", playerId |-> connection.playerId,
                         playerName |-> IF hasPlayer THEN MapGet(room.players, connection.playerId).name
                                        ELSE "Unknown"]
        S2 == IF room.gameState # NoGame
              THEN IF gamePlayer # 0
                   THEN BroadcastToRoom(S1, connection.roomId, disconnected, "")
                   ELSE S1
              ELSE IF shouldRemovePlayer
              THEN BroadcastToRoom(S1, connection.roomId,
                                   [type |-> "player_left", playerId |-> connection.playerId], "")
              ELSE BroadcastToRoom(S1, connection.roomId, disconnected, "")
    IN  IF connection = NoBinding THEN Outcome(S, "unbound")
        ELSE IF ref = NoRef
        THEN Outcome([S EXCEPT !.playerConnections[ws] = NoBinding], "no_room")
        ELSE Outcome(Suspend(PersistRoom(S2, ref, NoChat),
                             Task("disconnect", "persist", ws, connection.roomId,
                                  connection.playerId, ref)),
                     IF shouldRemovePlayer THEN "removed" ELSE "kept")

\* handlePlayerDisconnection with the game-state test of line 602 left out:
\* every room without an open connection is evicted.
DisconnectionFinishEvictsGames(S, t) ==
    LET room == S.heap[t.room]
        connectedPlayers == Len(ActiveEntries(S, room))
        S1 == IF connectedPlayers = 0
              THEN [S EXCEPT !.rooms[t.roomId] = NoRef]
              ELSE S
    IN  [Finish(S1, t) EXCEPT !.playerConnections[t.ws] = NoBinding]

\* Lines 601-610, after persistRoom has returned.
DisconnectionFinish(S, t) ==
    LET room == S.heap[t.room]
        connectedPlayers == Len(ActiveEntries(S, room))
        S1 == IF connectedPlayers = 0 /\ (room.gameState = NoGame \/ room.gameState.status = "waiting")
              THEN [S EXCEPT !.rooms[t.roomId] = NoRef]
              ELSE S
    IN  [Finish(S1, t) EXCEPT !.playerConnections[t.ws] = NoBinding]

\* --- dealCards --------------------------------------------------------------
\* dealCards without the readyState filter of line 690: every connection
\* entry of a roster player is dealt a hand.
DealCardsToEveryConnection(S, roomId, run) ==
    LET ref == S.rooms[roomId]
        room == S.heap[ref]
        entries == SelectSeq(room.connections, LAMBDA e : MapHas(room.players, e.key))
        playerData == [i \in 1..Len(entries) |-> [id |-> MapGet(room.players, entries[i].key).id,
                                                  name |-> MapGet(room.players, entries[i].key).name]]
        r == InitializeGameCompiled(roomId, playerData, run)
    IN  IF ref = NoRef THEN Outcome(S, "refused")
        ELSE IF room.isStarted \/ Len(room.players) < 1 THEN Outcome(S, "refused")
        ELSE IF ~r.ok THEN Outcome(S, "failed")
        ELSE Outcome(Suspend(PersistRoom([S EXCEPT !.heap[ref].gameState = r.state,
                                                   !.heap[ref].isStarted = TRUE,
                                                   !.heap[ref].lastActivity = S.now], ref, NoChat),
                             Task("deal", "persist", "", roomId, "", ref)),
                     "dealt")

\* Lines 683-706 up to the await of persistRoom.
DealCards(S, roomId, run) ==
    LET ref == S.rooms[roomId]
        room == S.heap[ref]
        open == SelectSeq(ActiveEntries(S, room), LAMBDA e : MapHas(room.players, e.key))
        playerData == [i \in 1..Len(open) |-> [id |-> MapGet(room.players, open[i].key).id,
                                               name |-> MapGet(room.players, open[i].key).name]]
        r == InitializeGameCompiled(roomId, playerData, run)
    IN  IF ref = NoRef THEN Outcome(S, "refused")
        ELSE IF room.isStarted \/ Len(room.players) < 1 THEN Outcome(S, "refused")
        ELSE IF ~r.ok THEN Outcome(S, "failed")
        ELSE Outcome(Suspend(PersistRoom([S EXCEPT !.heap[ref].gameState = r.state,
                                                   !.heap[ref].isStarted = TRUE,
                                                   !.heap[ref].lastActivity = S.now], ref, NoChat),
                             Task("deal", "persist", "", roomId, "", ref)),
                     "dealt")

\* Line 708, after persistRoom has returned.
DealCardsFinish(S, t) == BroadcastGameState(Finish(S, t), t.roomId)

\* --- handleSelectStartingPlayer / startGame ----------------------------------
\* GameEngine.selectStartingPlayer: the dealt game starts with the chosen
\* player holding the turn; an empty selector leaves the choice to the
\* scoring heuristic.
SelectStartingPlayer(gameState, startingPlayerId) ==
    LET start == IF startingPlayerId = ""
                 THEN DetermineStartingPlayer(gameState.players, gameState.piles)
                 ELSE PlayerIndex(gameState.players, startingPlayerId)
    IN  IF start = 0 THEN Threw("Invalid starting player", gameState)
        ELSE Returned([gameState EXCEPT
                          !.status = "playing",
                          !.currentPlayerId = gameState.players[start].id,
                          !.players = [i \in DOMAIN @ |->
                                          [@[i] EXCEPT !.isCurrentPlayer = (i = start)]]])

\* Lines 539-551 with startGame (lines 712-722) up to the await of persistRoom.
HandleSelectStartingPlayer(S, ws, startingPlayerId) ==
    LET connection == S.playerConnections[ws]
        ref == S.rooms[connection.roomId]
        failed == Send(S, ws, [type |-> "error", error |-> "Failed to select starting player"])
        r == SelectStartingPlayer(S.heap[ref].gameState, startingPlayerId)
    IN  IF connection = NoBinding \/ startingPlayerId = "" THEN Outcome(S, "dropped")
        ELSE IF ref = NoRef THEN Outcome(failed, "failed")
        ELSE IF S.heap[ref].gameState = NoGame THEN Outcome(failed, "failed")
        ELSE IF S.heap[ref].gameState.status # "cards_dealt" THEN Outcome(failed, "failed")
        ELSE IF ~r.ok THEN Outcome(failed, "failed")
        ELSE Outcome(Suspend(PersistRoom([S EXCEPT !.heap[ref].gameState = r.state,
                                                   !.heap[ref].lastActivity = S.now], ref, NoChat),
                             Task("start", "persist", ws, connection.roomId,
                                  connection.playerId, ref)),
                     "started")

\* Line 724, after persistRoom has returned.
StartGameFinish(S, t) == BroadcastGameState(Finish(S, t), t.roomId)

\* A suspended handler continues from its await to its next await or its end.
Resume(S, t) ==
    CASE t.kind = "create_room" -> CreateRoomFinish(S, t)
      [] t.kind = "join_room"   -> JoinResume(S, t)
      [] t.kind = "game_action" -> GameActionFinish(S, t)
      [] t.kind = "chat_message" -> ChatResume(S, t)
      [] t.kind = "disconnect"  -> DisconnectionFinish(S, t)
      [] t.kind = "deal"        -> DealCardsFinish(S, t)
      [] t.kind = "start"       -> StartGameFinish(S, t)

(***************************************************************************)
(* The coordinator as a state machine: clients send messages over their    *)
(* sockets, sockets close, the HTTP start endpoint deals the cards, the    *)
(* store connection goes down and comes back, and suspended handlers       *)
(* resume in any order.                                                    *)
(***************************************************************************)
Server ==
    [rooms |-> rooms, heap |-> heap, playerConnections |-> playerConnections,
     readyState |-> readyState, store |-> store, connected |-> connected,
     tasks |-> tasks, sent |-> <<>>, outcome |-> "", now |-> 10, uuid |-> steps + 1]

Holds(S) ==
    /\ rooms = S.rooms
    /\ heap = S.heap
    /\ playerConnections = S.playerConnections
    /\ readyState = S.readyState
    /\ store = S.store
    /\ connected = S.connected
    /\ tasks = S.tasks
    /\ sent = S.sent

Becomes(S) ==
    LET C == Collect(S)
    IN  /\ rooms' = C.rooms
        /\ heap' = C.heap
        /\ playerConnections' = C.playerConnections
        /\ readyState' = C.readyState
        /\ store' = C.store
        /\ connected' = C.connected
        /\ tasks' = C.tasks
        /\ sent' = C.sent

NoTask == Task("none", "", "", "", "", NoRef)

Handled(op, ws, S) == [op |-> op, ws |-> ws, outcome |-> S.outcome, task |-> NoTask]

Resumed(t) == [op |-> "resume", ws |-> t.ws, outcome |-> "", task |-> t]

\* The server states the exploration starts from, each reached from the
\* constructed server by running handlers to completion.
RECURSIVE Settle(_)
Settle(S) ==
    IF S.tasks = EmptyBag THEN S
    ELSE Settle(Resume(S, CHOOSE t \in BagToSet(S.tasks) : TRUE))

Quiet(S) == [Collect(Settle(S)) EXCEPT !.sent = <<>>, !.outcome = ""]

\* p1 has created the room and waits in it.
Lobby == Quiet(HandleCreateRoom(EmptyServer, "s1", "ROOM01", "p1"))

\* p2 has joined p1 and the cards have been dealt to both.
Dealt == Quiet(DealCards(Quiet(HandleJoinRoom(Lobby, "s2", "ROOM01", "p2")), "ROOM01", "keep"))

\* The lobby with a full roster: the client on s2 has joined under five
\* player ids in turn (p2, p4, p5, p6 left behind, none of them removed).
Joined(S, ws, playerId) == Quiet(HandleJoinRoom(S, ws, "ROOM01", playerId))

FullRoom == Joined(Joined(Joined(Joined(Lobby, "s2", "p2"), "s2", "p4"), "s2", "p5"), "s2", "p6")

\* The full lobby after a store outage: while the store was away p6 has left
\* and p3 has taken the seat, so the record in the store lists p6 and not p3.
StaleRecord ==
    LET away == [FullRoom EXCEPT !.connected = FALSE]
        left == Quiet(HandlePlayerDisconnection(away, "s2", TRUE))
        seat == Joined(left, "s3", "p3")
    IN  [seat EXCEPT !.connected = TRUE]

\* The server constructed anew over the store of a running game in which p1
\* has sent a chat message: no room is resident, no socket is bound, the
\* record of the room is in the store; the clients of the two players have
\* connected again.
Chatted == Quiet(HandleChatMessage(Dealt, "s1", Hello))

Restarted == [EmptyServer EXCEPT !.store = Chatted.store, !.readyState["s3"] = "CLOSED"]

\* p1 plays alone on s1 and has opened the game on a second device, s3; the
\* first device is still connected.  No client is connected on s2.
Rejoined ==
    [Joined(Quiet(DealCards(Lobby, "ROOM01", "keep")), "s3", "p1")
        EXCEPT !.readyState["s2"] = "CLOSED"]

\* p1 plays alone and no other client is connected.
Solo(run) ==
    [Quiet(DealCards(Lobby, "ROOM01", run))
        EXCEPT !.readyState["s2"] = "CLOSED", !.readyState["s3"] = "CLOSED"]

\* p1 has sent a chat message while the store was away; the store is back.
\* The message is in the room's log and not in the store.
ChattedOffline ==
    [Quiet(HandleChatMessage([Solo("keep") EXCEPT !.connected = FALSE], "s1", Hello))
        EXCEPT !.connected = TRUE]

\* The game actions of a line of play (see ApplyMove), each sent by the
\* client on ws and handled to its end.  Reading the bindings of S first
\* makes TLC evaluate the state a move starts from before it descends into
\* the move.
ActionOf(S, ws, move) ==
    LET hand == CurrentHand(RoomOf(S, S.playerConnections[ws].roomId).gameState)
    IN  CASE move[1] = "end"  -> [type |-> "end_turn", cardId |-> 0, pileId |-> ""]
          [] move[1] = "low"  -> [type |-> "play_card", cardId |-> hand[1], pileId |-> move[2]]
          [] move[1] = "high" -> [type |-> "play_card", cardId |-> hand[Len(hand)],
                                  pileId |-> move[2]]

RECURSIVE Played(_, _, _)
Played(S, ws, moves) ==
    IF S.playerConnections = EmptyServer.playerConnections \/ Len(moves) = 0 THEN S
    ELSE IF Len(moves) = 1 THEN Quiet(HandleGameAction(S, ws, ActionOf(S, ws, moves[1])))
    ELSE LET half == Len(moves) \div 2
         IN  Played(Played(S, ws, SubSeq(moves, 1, half)), ws,
                    SubSeq(moves, half + 1, Len(moves)))

\* p1 has blocked the piles at 99, 98, 2 and 3 in the first turn: no card
\* the coming draw brings can be played.
LastTurnLost ==
    Played(Solo("extremes"), "s1",
           << <<"high", "ascending-1">>, <<"high", "ascending-2">>,
              <<"low", "descending-1">>, <<"low", "descending-2">> >>)

\* p1 has played the whole deck and the last card of the hand.
LastTurnWon ==
    Played(Solo("keep"), "s1",
           Repeat(HighTurn, 45) \o Repeat(<< <<"high", "descending-1">> >>, 8))

ServerStartStates ==
    {EmptyServer, Lobby, Dealt, FullRoom, StaleRecord, Restarted, Rejoined, ChattedOffline,
     LastTurnLost, LastTurnWon}

\* The player id each socket's client uses; s3 is a third player.
JoinPairs == {<<"s1", "p1">>, <<"s2", "p2">>, <<"s3", "p3">>}

DealRuns == {"keep"}

ChatInputs == {Hello}

\* The client that chats.
ChatSockets == {"s1"}

\* The sockets whose closing handshake is seen before their 'close' event.
ClosingSockets == {"s1", "s2"}

\* The client that picks the starting player, and the player it names.
SelectSockets == {"s1"}

StartingPlayerIds == {"p1", ""}

\* The game actions a bound client sends: its lowest card (or a card it
\* cannot hold) on descending-1, end_turn and undo_move.
ActionInputs(S, ws) ==
    LET connection == S.playerConnections[ws]
        gs == IF connection # NoBinding /\ IsResident(S, connection.roomId)
              THEN RoomOf(S, connection.roomId).gameState ELSE NoGame
        i == IF gs = NoGame THEN 0 ELSE PlayerIndex(gs.players, connection.playerId)
        card == IF i # 0 /\ Len(gs.players[i].hand) > 0 THEN gs.players[i].hand[1]
                ELSE MinCardValue - 1
    IN  {[type |-> "play_card", cardId |-> card, pileId |-> "descending-1"],
         [type |-> "end_turn", cardId |-> 0, pileId |-> ""],
         [type |-> "undo_move", cardId |-> 0, pileId |-> ""]}

InitServer ==
    /\ \E S \in ServerStartStates : Holds(S)
    /\ game = NoGame
    /\ lastCall = [op |-> "none", ws |-> "", outcome |-> "", task |-> NoTask]
    /\ steps = 0

Event(op, ws, S) ==
    /\ steps < MaxEvents
    /\ Becomes(S)
    /\ lastCall' = Handled(op, ws, S)
    /\ steps' = steps + 1
    /\ UNCHANGED game

ReceiveCreateRoom ==
    \E pair \in JoinPairs, roomId \in RoomIds :
        /\ readyState[pair[1]] = "OPEN"
        /\ rooms[roomId] = NoRef
        /\ FreeRefs(Server) # {}
        /\ Event("create_room", pair[1], HandleCreateRoom(Server, pair[1], roomId, pair[2]))

ReceiveJoinRoom ==
    \E pair \in JoinPairs, roomId \in RoomIds :
        /\ readyState[pair[1]] = "OPEN"
        /\ Event("join_room", pair[1], HandleJoinRoom(Server, pair[1], roomId, pair[2]))

ReceiveGameAction ==
    \E ws \in Sockets :
        /\ readyState[ws] = "OPEN"
        /\ \E action \in ActionInputs(Server, ws) :
               Event("game_action", ws, HandleGameAction(Server, ws, action))

ReceiveChatMessage ==
    \E ws \in ChatSockets, message \in ChatInputs :
        /\ readyState[ws] = "OPEN"
        /\ Event("chat_message", ws, HandleChatMessage(Server, ws, message))

ReceiveSelectStartingPlayer ==
    \E ws \in SelectSockets, startingPlayerId \in StartingPlayerIds :
        /\ readyState[ws] = "OPEN"
        /\ Event("select_starting_player", ws,
                 HandleSelectStartingPlayer(Server, ws, startingPlayerId))

ReceiveLeaveRoom ==
    \E ws \in Sockets :
        /\ readyState[ws] = "OPEN"
        /\ Event("leave_room", ws, HandlePlayerDisconnection(Server, ws, TRUE))

\* The closing handshake of a socket has begun; its 'close' event has not
\* been emitted yet, so no handler runs.
SocketClosing ==
    \E ws \in ClosingSockets :
        /\ readyState[ws] = "OPEN"
        /\ Event("closing", ws, [Server EXCEPT !.readyState[ws] = "CLOSING"])

SocketClose ==
    \E ws \in Sockets :
        /\ readyState[ws] # "CLOSED"
        /\ Event("close", ws,
                 HandlePlayerDisconnection([Server EXCEPT !.readyState[ws] = "CLOSED"], ws, FALSE))

PostStart ==
    \E roomId \in RoomIds, run \in DealRuns :
        /\ steps < MaxEvents
        /\ Event("deal", "", DealCards(Server, roomId, run))

StoreDisconnect ==
    /\ connected
    /\ Event("store_down", "", [Server EXCEPT !.connected = FALSE])

StoreReconnect ==
    /\ ~connected
    /\ Event("store_up", "", [Server EXCEPT !.connected = TRUE])

ResumeHandler ==
    \E t \in BagToSet(tasks) :
        /\ t.pc = "getRoom.parts" => FreeRefs(Server) # {}
        /\ Becomes(Resume(Server, t))
        /\ lastCall' = Resumed(t)
        /\ UNCHANGED <<game, steps>>

NextServer ==
    \/ ReceiveCreateRoom
    \/ ReceiveJoinRoom
    \/ ReceiveGameAction
    \/ ReceiveChatMessage
    \/ ReceiveSelectStartingPlayer
    \/ ReceiveLeaveRoom
    \/ SocketClosing
    \/ SocketClose
    \/ PostStart
    \/ StoreDisconnect
    \/ StoreReconnect
    \/ ResumeHandler

SpecServer == InitServer /\ [][NextServer]_vars

(***************************************************************************)
(* The rules engine on its own                                             *)
(***************************************************************************)
Init ==
    /\ game \in StartStates
    /\ lastCall = NoCall
    /\ steps = 0
    /\ Holds(EmptyServer)

DoInitializeGame ==
    /\ game = NoGame
    /\ \E n \in 0..(MaxPlayers + 1), run \in RandomRuns :
         LET r == InitializeGame(RoomCode, PlayerData(n), run)
         IN  /\ game' = r.state
             /\ lastCall' = Call("initializeGame", r)
             /\ steps' = steps + Took(r)
             /\ UNCHANGED serverVars

DoInitializeGameCompiled ==
    /\ game = NoGame
    /\ \E n \in 0..(MaxPlayers + 1), run \in RandomRuns :
         LET r == InitializeGameCompiled(RoomCode, PlayerData(n), run)
         IN  /\ game' = r.state
             /\ lastCall' = Call("initializeGame", r)
             /\ steps' = steps + Took(r)
             /\ UNCHANGED serverVars

DoPlayCard ==
    /\ game # NoGame
    /\ steps < MaxSteps
    /\ \E in \in PlayInputs(game) :
         LET r == PlayCard(game, in[1], in[2], in[3])
         IN  /\ game' = r.state
             /\ lastCall' = Call("playCard", r)
             /\ steps' = steps + Took(r)
             /\ UNCHANGED serverVars

DoEndTurn ==
    /\ game # NoGame
    /\ steps < MaxSteps
    /\ LET r == EndTurn(game)
       IN  /\ game' = r.state
           /\ lastCall' = Call("endTurn", r)
           /\ steps' = steps + Took(r)
           /\ UNCHANGED serverVars

DoUndoLastMove ==
    /\ game # NoGame
    /\ steps < MaxSteps
    /\ LET r == UndoLastMove(game)
       IN  /\ game' = r.state
           /\ lastCall' = Call("undoLastMove", r)
           /\ steps' = steps + Took(r)
           /\ UNCHANGED serverVars

Next ==
    \/ DoInitializeGame
    \/ DoInitializeGameCompiled
    \/ DoPlayCard
    \/ DoEndTurn
    \/ DoUndoLastMove

Spec == Init /\ [][Next]_vars

(***************************************************************************)
(* Properties of the rules engine                                          *)
(***************************************************************************)
RECURSIVE Flatten(_)
Flatten(seqs) == IF Len(seqs) = 0 THEN <<>> ELSE Head(seqs) \o Flatten(Tail(seqs))

HandCards(gs) == Flatten([i \in 1..Len(gs.players) |-> gs.players[i].hand])

PileCards(gs) == Flatten([k \in 1..Len(gs.piles) |-> gs.piles[k].cards])

AllCards(gs) == HandCards(gs) \o gs.deck \o PileCards(gs)

CalledOk(op) == lastCall.op = op /\ lastCall.ok

\* C1: in every reachable game state the cards of the hands, the deck and
\* the four piles are exactly the 98 cards valued 2..99, each once, so the
\* hand sizes, the deck size and the pile sizes add up to 98.
C1_CardConservation ==
    game # NoGame =>
        /\ Len(HandCards(game)) + Len(game.deck) + Len(PileCards(game)) = 98
        /\ SeqToSet(AllCards(game)) = 2..99

\* An endTurn has drawn from the deck after cards were played on a pile.
C1_Witness ==
    /\ game # NoGame
    /\ CalledOk("endTurn")
    /\ Len(PileCards(game)) > 0
    /\ Len(game.deck) < 98 - Len(game.players) * GetStartingHandSize(Len(game.players))

\* The outcome the four checks of playCard must give for an input.
ExpectedPlayError(gs, playerId, cardId, pileId) ==
    LET ids == {gs.players[i].id : i \in 1..Len(gs.players)}
    IN  IF playerId \notin ids \/ pileId \notin PileIds THEN "Invalid player or pile"
        ELSE IF playerId # gs.currentPlayerId THEN "Not your turn"
        ELSE IF cardId \notin SeqToSet(CurrentHand(gs)) THEN "Card not in hand"
        ELSE LET pile == CHOOSE q \in SeqToSet(gs.piles) : q.id = pileId
                 legal == IF pile.type = "ascending"
                          THEN cardId > pile.currentValue \/ cardId = pile.currentValue - 10
                          ELSE cardId < pile.currentValue \/ cardId = pile.currentValue + 10
             IN  IF legal THEN "" ELSE "Invalid move"

\* C3: playCard throws 'Invalid player or pile' for an unknown player or
\* pile, else 'Not your turn' for a player who is not the current player,
\* else 'Card not in hand', else 'Invalid move' when canPlayCard rejects the
\* card; whenever it throws, the caller's state is the state it passed in.
C3_PlayCardRejects ==
    game # NoGame =>
        \A playerId \in PlayerInputs(game), cardId \in CardInputs(game), pileId \in PileInputs :
            LET r == PlayCard(game, playerId, cardId, pileId)
            IN  /\ r.error = ExpectedPlayError(game, playerId, cardId, pileId)
                /\ r.ok <=> r.error = ""
                /\ ~r.ok => r.state = game

\* A playCard was rejected after a card had been played in the same turn.
C3_Witness ==
    /\ game # NoGame
    /\ lastCall.op = "playCard" /\ ~lastCall.ok
    /\ lastCall.error = "Card not in hand"
    /\ game.cardsPlayed > 0

\* C4: whenever the status is 'playing', exactly one player has the
\* current-turn flag and that player is currentPlayerId.
C4_OneCurrentPlayer ==
    (game # NoGame /\ game.status = "playing") =>
        /\ Cardinality({i \in 1..Len(game.players) : game.players[i].isCurrentPlayer}) = 1
        /\ \A i \in 1..Len(game.players) :
              game.players[i].isCurrentPlayer <=> game.players[i].id = game.currentPlayerId

\* A turn has ended in a game of several players and the game goes on.
C4_Witness ==
    /\ game # NoGame
    /\ CalledOk("endTurn")
    /\ Len(game.players) > 1
    /\ game.status = "playing"

\* C5: undo stays within the current turn: a successful undoLastMove takes
\* back a card played in this turn, so it is called on a state with
\* cardsPlayed > 0 and returns a state with the same current player and
\* the same deck.
C5_UndoWithinTurn ==
    [][ (lastCall'.op = "undoLastMove" /\ lastCall'.ok /\ steps' = steps + 1) =>
            /\ game.cardsPlayed > 0
            /\ game'.currentPlayerId = game.currentPlayerId
            /\ game'.deck = game.deck ]_vars

\* The status the rules give a state: won, else lost, else playing.
ExpectedStatus(gs) ==
    LET hand == CurrentHand(gs)
        fits(card, pile) ==
            IF pile.type = "ascending"
            THEN card > pile.currentValue \/ card = pile.currentValue - 10
            ELSE card < pile.currentValue \/ card = pile.currentValue + 10
    IN  IF Len(gs.deck) = 0 /\ \A i \in 1..Len(gs.players) : Len(gs.players[i].hand) = 0
        THEN "won"
        ELSE IF \A c \in 1..Len(hand) : \A k \in 1..4 : ~fits(hand[c], gs.piles[k])
             THEN "lost"
             ELSE "playing"

\* C6: a successful endTurn sets the status to won / lost / playing as the
\* rules give it for the new current player; a successful playCard leaves
\* the status as it was.
C6_StatusOnlyAtEndTurn ==
    [][ /\ (lastCall'.op = "endTurn" /\ lastCall'.ok /\ steps' = steps + 1)
            => game'.status = ExpectedStatus(game')
        /\ (lastCall'.op = "playCard" /\ lastCall'.ok /\ steps' = steps + 1)
            => game'.status = game.status ]_vars

\* The last cards were played and the turn ended: the game is won.
C6_Witness ==
    /\ game # NoGame
    /\ CalledOk("endTurn")
    /\ game.status = "won"

(***************************************************************************)
(* Properties of the coordinator                                           *)
(***************************************************************************)
\* The players of the game and somebody who is not one of them.
Viewers(gs) == {gs.players[i].id : i \in 1..Len(gs.players)} \cup {"nobody"}

SwapCards(cards, a, b) ==
    [i \in 1..Len(cards) |-> IF cards[i] = a THEN b ELSE IF cards[i] = b THEN a ELSE cards[i]]

\* The state in which the cards a and b have changed places, wherever
\* they are among the deck and the hands of the players other than p.
SwapHidden(gs, p, a, b) ==
    [gs EXCEPT !.deck = SwapCards(@, a, b),
               !.players = [i \in 1..Len(@) |->
                               IF @[i].id = p THEN @[i]
                               ELSE [@[i] EXCEPT !.hand = SwapCards(@, a, b)]]]

\* Cards p must not learn about: the ends of the deck and of the hands of
\* the other players.
HiddenCards(gs, p) ==
    LET ends(s) == IF Len(s) = 0 THEN {} ELSE {s[1], s[Len(s)]}
    IN  ends(gs.deck) \cup
        UNION {ends(gs.players[i].hand) : i \in {j \in 1..Len(gs.players) : gs.players[j].id # p}}

HandPrivate(gs, p) ==
    LET view == CreateClientGameState(gs, p)
        i == PlayerIndex(gs.players, p)
    IN  /\ view.yourHand = IF i = 0 THEN <<>> ELSE gs.players[i].hand
        /\ \A a \in HiddenCards(gs, p), b \in HiddenCards(gs, p) :
               (a < b /\ \A c \in HiddenCards(gs, p) : a <= c)
                   => CreateClientGameState(SwapHidden(gs, p, a, b), p) = view

GameStateUpdate(room, playerId) ==
    [type |-> "game_state_update",
     gameState |-> CreateClientGameState(room.gameState, playerId),
     chatMessages |-> room.chatMessages]

\* A broadcast of views is on its way to the clients (or the run starts).
Broadcasting == lastCall.op = "resume" /\ lastCall.task.kind \in {"game_action", "deal"}

ViewSent == lastCall.op = "none" \/ (Broadcasting /\ sent # <<>>)

AllConnected(players) == [i \in 1..Len(players) |-> [players[i] EXCEPT !.isConnected = TRUE]]

\* Equality of two game states, or of two views, up to the isConnected
\* flags, which joins and disconnections set on the room's game state in
\* place.
SameGame(a, b) ==
    IF a = NoGame \/ b = NoGame THEN a = b
    ELSE [a EXCEPT !.players = AllConnected(@)] = [b EXCEPT !.players = AllConnected(@)]

OpenEntries(room) == SelectSeq(room.connections, LAMBDA e : readyState[e.value] = "OPEN")

TasksOf(kind) == {t \in BagToSet(tasks) : t.kind = kind}

\* C7: a game_action the engine rejects sends one game_error to the
\* originator and changes neither the room nor the store; a game_action
\* the engine accepts stores its result in the room and in the store, and
\* when its handler resumes every open connection of the room is sent a
\* game_state_update built from that result.
C7_GameActionOutcome ==
    [][LET ws == lastCall'.ws
           binding == playerConnections[ws]
           t == lastCall'.task
       IN  /\ (lastCall'.op = "game_action" /\ lastCall'.outcome = "rejected")
                  => /\ Len(sent') = 1
                     /\ sent'[1].to = ws
                     /\ sent'[1].msg.type = "game_error"
                     /\ UNCHANGED <<rooms, heap, store, tasks, playerConnections>>
           /\ (lastCall'.op = "game_action" /\ lastCall'.outcome = "applied")
                  => /\ sent' = <<>>
                     /\ heap'[rooms[binding.roomId]].gameState # heap[rooms[binding.roomId]].gameState
                     /\ connected => store'[binding.roomId].gameState
                                         = heap'[rooms[binding.roomId]].gameState
                     /\ \E u \in BagToSet(tasks') :
                            /\ u.kind = "game_action" /\ u.ws = ws
                            /\ u.newGameState = heap'[rooms[binding.roomId]].gameState
           /\ (lastCall'.op = "resume" /\ t.kind = "game_action")
                  => /\ rooms[t.roomId] # NoRef
                     /\ \A i \in 1..Len(OpenEntries(heap[rooms[t.roomId]])) :
                            LET e == OpenEntries(heap[rooms[t.roomId]])[i]
                            IN  \E k \in 1..Len(sent') :
                                    /\ sent'[k].to = e.value
                                    /\ sent'[k].msg.type = "game_state_update"
                                    /\ SameGame(sent'[k].msg.gameState,
                                                CreateClientGameState(t.newGameState, e.key))
      ]_vars

\* C8: hydrateRoomFromPersistence applied to a room that is resident and
\* has a game state leaves its game state and its isStarted flag as they
\* are in memory.
C8_MemoryIsAuthoritative ==
    [][LET t == lastCall'.task
       IN  (/\ lastCall'.op = "resume" /\ t.kind = "join_room" /\ t.pc = "hydrate.parts"
            /\ rooms[t.roomId] = t.room
            /\ heap[t.room].gameState # NoGame
            /\ heap'[t.room] # NoRoom)
               => /\ SameGame(heap'[t.room].gameState, heap[t.room].gameState)
                  /\ heap'[t.room].isStarted = heap[t.room].isStarted
      ]_vars

\* C9: a game_action received from a socket whose join_room is still being
\* handled, for a resident room with a game state and a seat for the
\* player, finds the binding that join_room creates and is not dropped.
C9_SecondMessageSeesBinding ==
    [][\A t \in TasksOf("join_room") :
           (/\ lastCall'.op = "game_action" /\ lastCall'.ws = t.ws
            /\ t.pc \in {"hydrate.metadata", "hydrate.parts"}
            /\ rooms[t.roomId] = t.room
            /\ heap[t.room].gameState # NoGame
            /\ Len(heap[t.room].players) < heap[t.room].maxPlayers)
               => /\ playerConnections[t.ws] = [playerId |-> t.playerId, roomId |-> t.roomId]
                  /\ lastCall'.outcome # "dropped"
      ]_vars

\* C10: a bound socket that closes while its room has a game state keeps
\* its roster entry, is marked disconnected in the game state, and every
\* other open connection is sent player_disconnected; a socket that closes
\* while the room has no game state, or that sends leave_room, loses its
\* roster entry and its connection entry; and the handler ends by removing
\* the socket's binding.
C10_Departure ==
    [][LET ws == lastCall'.ws
           binding == playerConnections[ws]
           ref == rooms[binding.roomId]
           t == lastCall'.task
       IN  /\ (lastCall'.op = "close" /\ lastCall'.outcome = "kept")
                  => /\ heap[ref].gameState # NoGame
                     /\ MapHas(heap[ref].players, binding.playerId)
                            => MapHas(heap'[ref].players, binding.playerId)
                     /\ LET i == PlayerIndex(heap'[ref].gameState.players, binding.playerId)
                        IN  i # 0 => ~heap'[ref].gameState.players[i].isConnected
                     /\ \A k \in 1..Len(heap'[ref].connections) :
                            \E m \in 1..Len(sent') :
                                /\ sent'[m].to = heap'[ref].connections[k].value
                                /\ sent'[m].msg.type = "player_disconnected"
                                /\ sent'[m].msg.playerId = binding.playerId
           /\ (lastCall'.op \in {"close", "leave_room"} /\ lastCall'.outcome = "removed")
                  => /\ lastCall'.op = "leave_room" \/ heap[ref].gameState = NoGame
                     /\ ~MapHas(heap'[ref].players, binding.playerId)
                     /\ ~MapHas(heap'[ref].connections, binding.playerId)
           /\ (lastCall'.op \in {"close", "leave_room"} /\ lastCall'.outcome = "no_room")
                  => playerConnections'[ws] = NoBinding
           /\ (lastCall'.op = "resume" /\ t.kind = "disconnect")
                  => playerConnections'[t.ws] = NoBinding
      ]_vars

\* --- Residency, capacity, restoration ----------------------------------------
\* C11: residency after a disconnect or leave.  When the handler finishes for
\* the resident room and the room has no open connection: a room whose game
\* state has a status other than 'waiting' stays resident, unchanged; a room
\* without a game state is removed from the in-memory map.  The eviction does
\* not touch the store, the departure has written the room's record when the
\* store was connected, and a join_room that finds the record of a non-resident
\* room puts the room back into memory with the stored game state.
C11_Residency ==
    [][ LET t == lastCall'.task
            left == lastCall'.op = "resume" /\ t.kind = "disconnect"
                    /\ rooms[t.roomId] = t.room /\ t.room # NoRef
            departed == playerConnections[lastCall'.ws].roomId
        IN  /\ (left /\ Len(OpenEntries(heap[t.room])) = 0)
                  => /\ (heap[t.room].gameState # NoGame /\ heap[t.room].gameState.status # "waiting")
                            => rooms'[t.roomId] = t.room /\ heap'[t.room] = heap[t.room]
                     /\ heap[t.room].gameState = NoGame
                            => rooms'[t.roomId] = NoRef
                     /\ store' = store
            /\ (lastCall'.op \in {"close", "leave_room"} /\ lastCall'.outcome \in {"kept", "removed"}
                /\ connected)
                  => /\ store'[departed].metadata # NoMetadata
                     /\ store'[departed].gameState = heap'[rooms'[departed]].gameState
                     /\ store'[departed].players = GetStoredPlayers(heap'[rooms'[departed]])
            /\ (lastCall'.op = "resume" /\ t.kind = "join_room" /\ t.pc = "getRoom.parts")
                  => /\ rooms'[t.roomId] # NoRef
                     /\ heap'[rooms'[t.roomId]].gameState = t.snapshot.gameState
      ]_vars

\* A room evicted from memory has come back through a join_room.
C11_Witness ==
    /\ lastCall.op = "resume"
    /\ lastCall.task.kind = "join_room"
    /\ lastCall.task.pc = "getRoom.parts"
    /\ rooms[lastCall.task.roomId] # NoRef
    /\ store[lastCall.task.roomId].metadata # NoMetadata

Unchanged == rooms' = rooms /\ heap' = heap /\ store' = store
             /\ playerConnections' = playerConnections

Rejected(ws, text) ==
    /\ sent' = IF readyState[ws] = "OPEN" THEN <<[to |-> ws, msg |-> ErrorMessage(text)]>> ELSE <<>>
    /\ Unchanged

\* C12: room capacity.  Every resident room's roster holds at most maxPlayers
\* players; a join_room that reaches the capacity check with a player id that
\* is not in the roster of a full room is answered with 'Room is full' and
\* changes nothing; with a player id of the roster it is accepted and binds
\* the (open) socket; a join_room that finds the room neither in memory nor in the
\* store is answered with 'Room not found' and changes nothing.
C12_RoomCapacity ==
    [][ LET t == lastCall'.task
            joining == lastCall'.op = "resume" /\ t.kind = "join_room"
            checking == joining /\ (t.pc = "hydrate.parts"
                                    \/ (t.pc = "hydrate.metadata" /\ t.snapshot.metadata = NoMetadata))
            room == heap[t.room]
        IN  /\ \A r \in RoomIds :
                  rooms'[r] # NoRef => Len(heap'[rooms'[r]].players) <= heap'[rooms'[r]].maxPlayers
            /\ (checking /\ ~MapHas(room.players, t.playerId) /\ Len(room.players) >= room.maxPlayers)
                  => Rejected(t.ws, "Room is full")
            /\ (checking /\ MapHas(room.players, t.playerId) /\ readyState[t.ws] = "OPEN")
                  => /\ \A i \in 1..Len(sent') : sent'[i].msg.type # "error"
                     /\ playerConnections'[t.ws] = [playerId |-> t.playerId, roomId |-> t.roomId]
            /\ (joining /\ t.pc = "getRoom.metadata" /\ t.snapshot.metadata = NoMetadata)
                  => Rejected(t.ws, "Room not found")
      ]_vars

\* C13: restoring a room on rejoin.  A join_room that finds the room only in
\* the store puts it into memory with the stored roster, the stored game
\* state and an empty connection map.  When that join registers its (open)
\* socket it adds the joining player's connection entry and no other, keeps
\* every roster entry, and the players written to the store are the whole
\* roster.  When it answers room_joined to a socket that is still bound to
\* the player and has not left, the room it restored and registered the
\* socket in is the resident room.
C13_RestoreOnRejoin ==
    [][ LET t == lastCall'.task
            joining == lastCall'.op = "resume" /\ t.kind = "join_room"
            restoring == joining /\ t.pc = "getRoom.parts"
            registering == joining /\ t.storedRoom /\ readyState[t.ws] = "OPEN"
                           /\ playerConnections'[t.ws] = [playerId |-> t.playerId, roomId |-> t.roomId]
                           /\ (t.pc = "hydrate.parts"
                               \/ (t.pc = "hydrate.metadata" /\ t.snapshot.metadata = NoMetadata))
            answering == joining /\ t.storedRoom /\ t.pc = "persist" /\ readyState[t.ws] = "OPEN"
                         /\ playerConnections[t.ws] = [playerId |-> t.playerId, roomId |-> t.roomId]
                         /\ \A d \in BagToSet(tasks) : ~(d.kind = "disconnect" /\ d.ws = t.ws)
            before == heap[t.room]
            after == heap'[t.room]
            restored == heap'[rooms'[t.roomId]]
        IN  /\ restoring
                  => /\ rooms'[t.roomId] # NoRef
                     /\ restored.players = PlayerMap(t.snapshot.players)
                     /\ restored.gameState = t.snapshot.gameState
                     /\ restored.connections = <<>>
            /\ registering
                  => /\ MapHas(after.connections, t.playerId)
                     /\ MapGet(after.connections, t.playerId) = t.ws
                     /\ \A i \in 1..Len(after.connections) :
                            after.connections[i].key = t.playerId
                            \/ after.connections[i] \in SeqToSet(before.connections)
                     /\ \A i \in 1..Len(before.players) : MapHas(after.players, before.players[i].key)
                     /\ connected => store'[t.roomId].players = GetStoredPlayers(after)
            /\ answering
                  => rooms'[t.roomId] = t.room
      ]_vars

Recipients(msgs, type) ==
    LET of == SelectSeq(msgs, LAMBDA m : m.msg.type = type)
    IN  [i \in 1..Len(of) |-> of[i].to]

\* --- Broadcast ---------------------------------------------------------------
\* C14: a broadcast pass over the resident room (broadcastGameState after a
\* game action, broadcastToRoom of player_joined excluding the joiner) sends
\* the message once to every connection entry of the room whose socket is
\* open, except the excluded player's, in map order, and to no socket that is
\* closing or closed; afterwards the room's connection map holds exactly the
\* entries whose socket is open.
C14_BroadcastToOpen ==
    [][ LET t == lastCall'.task
            ref == rooms[t.roomId]
            room == heap[ref]
            open == OpenEntries(room)
            others == SelectSeq(open, LAMBDA e : e.key # t.playerId)
            state == lastCall'.op = "resume" /\ t.kind = "game_action"
                     /\ ref # NoRef /\ room.gameState # NoGame
            joined == lastCall'.op = "resume" /\ t.kind = "join_room" /\ t.pc = "persist"
                      /\ ~t.isRejoining /\ ref # NoRef
        IN  /\ \A i \in 1..Len(sent') : readyState[sent'[i].to] = "OPEN"
            /\ state => /\ Recipients(sent', "game_state_update") = MapValues(open)
                        /\ heap'[ref].connections = open
            /\ joined => /\ Recipients(sent', "player_joined") = MapValues(others)
                         /\ heap'[ref].connections = open
      ]_vars

\* A game action has been broadcast to the open connection of a room after
\* the other player's socket had begun to close: that entry has been pruned.
C14_Witness ==
    /\ lastCall.op = "resume"
    /\ lastCall.task.kind = "game_action"
    /\ rooms[lastCall.task.roomId] # NoRef
    /\ sent # <<>>
    /\ \E ws \in Sockets : readyState[ws] = "CLOSING" /\ playerConnections[ws] = NoBinding
    /\ LET room == heap[rooms[lastCall.task.roomId]]
       IN  room.gameState # NoGame /\ Len(room.connections) < Len(room.gameState.players)

\* persistRoom of every part followed by getRoom and restoreRoomFromStorage.
RoundTrip(S, ref) ==
    LET roomId == S.heap[ref].id
        S1 == PersistRoom(S, ref, AllParts)
        snapshot == GetRoomParts(S1, roomId, GetRoomMetadata(S1, roomId))
    IN  RestoreRoomFromStorage(S1, ref, snapshot).heap[ref]

\* --- Persistence ---------------------------------------------------------------
\* C15: with the store connected, persisting a room and loading it back gives
\* a room with the same id, maxPlayers, isStarted, createdAt, lastActivity,
\* roster, game state and chat log, and an empty connection map; this holds
\* for every room object of every reachable state.
C15_RoundTrip ==
    connected =>
        \A o \in ObjIds :
            heap[o] # NoRoom
                => RoundTrip(Server, o) = [heap[o] EXCEPT !.connections = <<>>]

\* A join_room has loaded the room that was persisted before the restart:
\* it is the dealt room with its chat message, without connections.
C15_Witness ==
    /\ lastCall.op = "resume"
    /\ lastCall.task.kind = "join_room"
    /\ lastCall.task.pc = "getRoom.parts"
    /\ rooms["ROOM01"] # NoRef
    /\ heap[rooms["ROOM01"]] = [RoomOf(Chatted, "ROOM01") EXCEPT !.connections = <<>>]
    /\ heap[rooms["ROOM01"]].chatMessages # <<>>
    /\ heap[rooms["ROOM01"]].gameState # NoGame

\* What a handler run to completion leaves in memory and on the wire.
Run(S) ==
    LET C == Collect(Settle(S))
    IN  [rooms |-> C.rooms, heap |-> C.heap, playerConnections |-> C.playerConnections,
         sent |-> C.sent]

StoreDown(S) == [S EXCEPT !.connected = FALSE]

\* The store holds what persistRoom would write for every resident room.
InSync(S) ==
    \A r \in RoomIds : S.rooms[r] # NoRef => PersistRoom(S, S.rooms[r], AllParts).store = S.store

\* A handler has the same effect in memory and sends the same messages
\* with the store connected, with the store disconnected, and with the store
\* lost while the handler is suspended at its first await.
BestEffort(Handler(_), S) ==
    /\ Run(Handler(StoreDown(S))) = Run(Handler(S))
    /\ Run(StoreDown(Handler(S))) = Run(Handler(S))

\* C16: persistence is best-effort.  From every state in which no handler is
\* in flight and the store is connected and agrees with memory, create_room,
\* join_room of a resident room, game_action, chat_message, leave_room and
\* dealCards change the in-memory rooms and bindings and send their replies
\* and broadcasts in the same way whether the store stays connected or not.
C16_BestEffortPersistence ==
    (tasks = EmptyBag /\ connected /\ InSync(Server)) =>
        \A roomId \in RoomIds :
            /\ \A pair \in JoinPairs :
                   readyState[pair[1]] = "OPEN" =>
                       IF rooms[roomId] # NoRef
                       THEN BestEffort(LAMBDA S : HandleJoinRoom(S, pair[1], roomId, pair[2]), Server)
                       ELSE BestEffort(LAMBDA S : HandleCreateRoom(S, pair[1], roomId, pair[2]), Server)
            /\ \A ws \in Sockets :
                   readyState[ws] = "OPEN" =>
                       /\ \A action \in ActionInputs(Server, ws) :
                              BestEffort(LAMBDA S : HandleGameAction(S, ws, action), Server)
                       /\ \A message \in ChatInputs :
                              BestEffort(LAMBDA S : HandleChatMessage(S, ws, message), Server)
                       /\ BestEffort(LAMBDA S : HandlePlayerDisconnection(S, ws, TRUE), Server)
            /\ \A run \in DealRuns : BestEffort(LAMBDA S : DealCards(S, roomId, run), Server)

(***************************************************************************)
(* Rules of the engine: legal plays, ending a turn, undo, the deal.        *)
(***************************************************************************)

PileValues == 1..100

PileAt(type, value) ==
    [id |-> type \o "-1", type |-> type, startValue |-> value, currentValue |-> value,
     cards |-> <<>>]

\* The rule of the game, by the distance from the pile's value to the card.
Legal(type, value, current) ==
    LET up == value - current
    IN  IF type = "ascending" THEN up >= 1 \/ up = -ReverseJump
        ELSE up <= -1 \/ up = ReverseJump

CanPlayCardTable ==
    /\ \A value \in MinCardValue..MaxCardValue, current \in PileValues :
           \A type \in {"ascending", "descending"} :
               CanPlayCard(value, PileAt(type, current)) <=> Legal(type, value, current)
    /\ CanPlayCard(46, PileAt("ascending", 45)) /\ CanPlayCard(35, PileAt("ascending", 45))
    /\ ~CanPlayCard(44, PileAt("ascending", 45)) /\ ~CanPlayCard(36, PileAt("ascending", 45))

\* C17: canPlayCard is true exactly for a card beyond the pile's value in the
\* pile's direction or exactly ten behind it, for every card value 2..99 and
\* pile value 1..100 on both kinds of pile; and in every reachable game the
\* current player's playCard of a card of the hand succeeds on a pile exactly
\* when that rule allows the card on the pile.
C17_CanPlayCard ==
    /\ CanPlayCardTable
    /\ game # NoGame =>
           \A c \in SeqToSet(CurrentHand(game)), k \in 1..Len(game.piles) :
               PlayCard(game, game.currentPlayerId, c, game.piles[k].id).ok
                   <=> Legal(game.piles[k].type, c, game.piles[k].currentValue)

\* A card has been played on a pile that already held cards, and a card of
\* the hand is now exactly ten behind a pile: the jump is a legal play there.
C17_Witness ==
    /\ game # NoGame
    /\ lastCall.op = "playCard" /\ lastCall.ok
    /\ \E c \in SeqToSet(CurrentHand(game)), k \in 1..Len(game.piles) :
           /\ Len(game.piles[k].cards) > 0
           /\ Legal(game.piles[k].type, c, game.piles[k].currentValue)
           /\ ~CanPlayCardNoJump(c, game.piles[k])


\* C18: endTurn fails with 'Must play minimum cards' whenever cardsPlayed is
\* below minCardsToPlay (and only then), and the failed call leaves the game
\* state as it was: current player, hands, deck, cardsPlayed, status, canUndo
\* and everything else.
C18_EndTurnMinimum ==
    /\ game # NoGame =>
           LET r == EndTurn(game)
           IN  /\ game.cardsPlayed < game.minCardsToPlay
                      => ~r.ok /\ r.error = "Must play minimum cards" /\ r.state = game
               /\ game.cardsPlayed >= game.minCardsToPlay => r.ok
    /\ (lastCall.op = "endTurn" /\ ~lastCall.ok)
           => /\ lastCall.error = "Must play minimum cards"
              /\ game.cardsPlayed < game.minCardsToPlay

\* endTurn has been refused after one card of the two required was played.
C18_Witness ==
    /\ game # NoGame
    /\ lastCall.op = "endTurn" /\ ~lastCall.ok
    /\ game.cardsPlayed = 1 /\ game.minCardsToPlay = 2

\* The fields of a game state that play followed by undo is said to leave as
\* they were.
SamePosition(a, b) ==
    /\ [i \in DOMAIN a.players |-> a.players[i].hand]
           = [i \in DOMAIN b.players |-> b.players[i].hand]
    /\ [i \in DOMAIN a.piles |-> <<a.piles[i].cards, a.piles[i].currentValue>>]
           = [i \in DOMAIN b.piles |-> <<b.piles[i].cards, b.piles[i].currentValue>>]
    /\ a.deck = b.deck
    /\ a.cardsPlayed = b.cardsPlayed
    /\ a.currentPlayerId = b.currentPlayerId
    /\ a.minCardsToPlay = b.minCardsToPlay
    /\ a.isDeckEmpty = b.isDeckEmpty

\* undoLastMove on a state without undo fails and returns the state it got.
UndoRefused(gs) ==
    (~gs.canUndo \/ Len(gs.moveHistory) = 0)
        => LET r == UndoLastMove(gs)
           IN  ~r.ok /\ r.error = "Cannot undo" /\ r.state = gs

\* C19: for every state on which playCard succeeds, undoLastMove of the
\* result equals that state in every hand, every pile's cards and current
\* value, the deck, cardsPlayed, currentPlayerId, minCardsToPlay, isDeckEmpty
\* and moveHistory, and its canUndo is true exactly when the remaining
\* moveHistory is not empty; undoLastMove fails with 'Cannot undo' and
\* changes nothing when canUndo is false or moveHistory is empty.
C19_PlayThenUndo ==
    game # NoGame =>
        /\ \A in \in PlayInputs(game) :
             LET p == PlayCard(game, in[1], in[2], in[3])
                 u == UndoLastMove(p.state)
             IN  p.ok => /\ u.ok
                         /\ SamePosition(u.state, game)
                         /\ u.state.moveHistory = game.moveHistory
                         /\ u.state.canUndo <=> Len(u.state.moveHistory) > 0
        /\ UndoRefused(game)

\* --- Dealing -------------------------------------------------------------------
\* What initializeGame returns for n players, n in 1..5: hands of the
\* starting size, sorted ascending; the rest of the created deck; four empty
\* piles at 1, 1, 100, 100.
DealtFor(gs, n, handSize) ==
    /\ Len(gs.players) = n
    /\ \A i \in 1..n :
         /\ Len(gs.players[i].hand) = handSize
         /\ \A k \in 1..(handSize - 1) : gs.players[i].hand[k] < gs.players[i].hand[k + 1]
    /\ Len(gs.deck) = (MaxCardValue - MinCardValue + 1) - n * handSize
    /\ Len(gs.piles) = 4
    /\ \A k \in 1..4 : gs.piles[k].cards = <<>>
    /\ [k \in 1..4 |-> gs.piles[k].currentValue] = <<1, 1, 100, 100>>

ClaimedHandSize(n) == CASE n = 1 -> 8 [] n = 2 -> 7 [] OTHER -> 6

\* C20: initializeGame fails with 'Invalid number of players' unless there
\* are 1 to 5 players; otherwise every player is dealt 8 cards (1 player),
\* 7 cards (2 players) or 6 cards (3 to 5 players), each hand is sorted
\* ascending, the deck keeps the remaining 98 - n * handSize cards (84 for
\* 2 players), and the four piles are empty at 1, 1, 100, 100.
C20_InitializeGame ==
    /\ game = NoGame =>
           \A n \in 0..(MaxPlayers + 1), run \in RandomRuns :
               LET r == InitializeGame(RoomCode, PlayerData(n), run)
               IN  IF n < 1 \/ n > 5
                   THEN ~r.ok /\ r.error = "Invalid number of players"
                   ELSE /\ r.ok
                        /\ DealtFor(r.state, n, ClaimedHandSize(n))
                        /\ r.state.deck = SubSeq(CreateDeck(run), 1, Len(r.state.deck))
                        /\ n = 2 => Len(r.state.deck) = 84
    /\ CalledOk("initializeGame")
           => DealtFor(game, Len(game.players), ClaimedHandSize(Len(game.players)))
    /\ (lastCall.op = "initializeGame" /\ ~lastCall.ok)
           => game = NoGame /\ lastCall.error = "Invalid number of players"

C20_Witness ==
    /\ CalledOk("initializeGame")
    /\ Len(game.players) = 2
    /\ Len(game.players[1].hand) = 7 /\ Len(game.players[2].hand) = 7
    /\ Len(game.deck) = 84

\* --- Starting a game ----------------------------------------------------------
\* C21: a successful dealCards on a room without a game leaves the room's
\* game in status 'cards_dealt' with hands dealt and no player holding the
\* current-turn flag; only a select_starting_player step moves a game to
\* 'playing', and then the chosen player holds the flag; no game action is
\* applied to a game that is not 'playing'.
C21_TwoPhaseStart ==
    [][\A r \in RoomIds :
         LET before == IF rooms[r] = NoRef THEN NoGame ELSE heap[rooms[r]].gameState
             after  == IF rooms'[r] = NoRef THEN NoGame ELSE heap'[rooms'[r]].gameState
         IN  /\ (lastCall'.op = "deal" /\ lastCall'.outcome = "dealt" /\ before = NoGame)
                    => /\ after # NoGame
                       /\ after.status = "cards_dealt"
                       /\ \A i \in DOMAIN after.players :
                              /\ Len(after.players[i].hand)
                                     = GetStartingHandSize(Len(after.players))
                              /\ ~after.players[i].isCurrentPlayer
             /\ (rooms[r] # NoRef /\ rooms'[r] # NoRef /\ after # NoGame
                 /\ after.status = "playing"
                 /\ (before = NoGame \/ before.status \in {"waiting", "cards_dealt"}))
                    => /\ lastCall'.op \in {"select_starting_player", "resume"}
                       /\ lastCall'.op = "resume" => lastCall'.task.kind = "start"
                       /\ \E i \in DOMAIN after.players :
                              /\ after.players[i].isCurrentPlayer
                              /\ after.players[i].id = after.currentPlayerId
             /\ (lastCall'.op = "game_action" /\ lastCall'.outcome = "applied"
                 /\ playerConnections[lastCall'.ws].roomId = r)
                    => before # NoGame /\ before.status = "playing"
      ]_vars

\* --- The deck runs out ----------------------------------------------------------
\* C22: in every reachable game state minCardsToPlay is 2 when the deck is
\* not empty and 1 when it is empty, and isDeckEmpty is true exactly when
\* the deck holds no cards, also in the state an endTurn returns whose draw
\* took the last card of the deck.
C22_DeckEmptyFlags ==
    game # NoGame =>
        /\ Len(game.deck) > 0 => game.minCardsToPlay = 2
        /\ Len(game.deck) = 0 => game.minCardsToPlay = 1
        /\ game.isDeckEmpty <=> Len(game.deck) = 0

\* --- Move history ---------------------------------------------------------------
IsPrefix(s, t) == Len(s) <= Len(t) /\ SubSeq(t, 1, Len(s)) = s

\* gs is the state one played card after snapshot: every pile of gs extends
\* the pile of the snapshot, and one card more lies on the piles.
OneMoveAfter(snapshot, gs) ==
    /\ \A k \in DOMAIN gs.piles : IsPrefix(snapshot.piles[k].cards, gs.piles[k].cards)
    /\ Len(PileCards(gs)) = Len(PileCards(snapshot)) + 1

\* C23: in every reachable game state moveHistory holds at most 10
\* snapshots, every snapshot has an empty moveHistory and canUndo = false,
\* and the snapshots are in the order the moves were played, the last one
\* being the state before the latest move (so the snapshot dropped at the
\* 11th move is the oldest).
C23_MoveHistory ==
    game # NoGame =>
        LET h == game.moveHistory
        IN  /\ Len(h) <= 10
            /\ \A i \in DOMAIN h : h[i].moveHistory = <<>> /\ ~h[i].canUndo
            /\ \A i \in 1..(Len(h) - 1) : OneMoveAfter(h[i], h[i + 1])
            /\ Len(h) > 0 => OneMoveAfter(h[Len(h)], game)

C23_Witness ==
    /\ game # NoGame
    /\ CalledOk("playCard")
    /\ Len(game.moveHistory) = 10
    /\ Len(PileCards(game)) > 10

\* --- Chat -------------------------------------------------------------------------
\* The log holds the message, and every message behind it was received
\* later (the server's ids grow with the messages it receives).
EndsWith(log, message) ==
    \E i \in DOMAIN log :
        /\ log[i] = message
        /\ \A j \in (i + 1)..Len(log) : log[j].id > message.id

\* C24: each resident room's chat log holds at most 100 messages; a
\* chat_message from a bound connection gets its id and timestamp from the
\* server and its playerId from the sender's binding, whatever the client
\* supplied; when its handler has finished, the room's log ends with that
\* message and the message has been sent to every open connection of the
\* room, the sender included.
C24_ChatLog ==
    [][/\ \A r \in RoomIds :
            rooms'[r] # NoRef => Len(heap'[rooms'[r]].chatMessages) <= 100
       /\ (lastCall'.op = "chat_message" /\ lastCall'.outcome = "accepted")
              => \E t \in BagToSet(tasks') :
                     /\ t.kind = "chat_message" /\ t.ws = lastCall'.ws /\ t.pc = "append"
                     /\ t.chatMessage.playerId = playerConnections[t.ws].playerId
                     /\ t.chatMessage.id \notin {m.id : m \in ChatInputs}
                     /\ t.chatMessage.timestamp \notin {m.timestamp : m \in ChatInputs}
                     /\ t.chatMessage.text \in {m.text : m \in ChatInputs}
       /\ (lastCall'.op = "resume" /\ lastCall'.task.kind = "chat_message"
           /\ lastCall'.task.pc = "persist" /\ rooms[lastCall'.task.roomId] # NoRef)
              => LET t == lastCall'.task
                     room == heap[rooms[t.roomId]]
                 IN  /\ EndsWith(room.chatMessages, t.chatMessage)
                     /\ \A i \in 1..Len(OpenEntries(room)) :
                            \E k \in 1..Len(sent') :
                                /\ sent'[k].to = OpenEntries(room)[i].value
                                /\ sent'[k].msg = [type |-> "chat_message",
                                                   message |-> t.chatMessage]
                     /\ (readyState[t.ws] = "OPEN" /\ MapHas(room.connections, t.playerId)
                         /\ MapGet(room.connections, t.playerId) = t.ws)
                            => \E k \in 1..Len(sent') : sent'[k].to = t.ws
      ]_vars

\* --- Room codes ------------------------------------------------------------------
\* C25: create_room allocates a room code that is the id of no existing
\* room, resident in memory or only persisted in the store, so it replaces
\* no room's in-memory state or stored record; the creator is the only
\* roster player, the creating connection is bound to (creator, new room),
\* and the room is persisted.
C25_CreateRoom ==
    [][(lastCall'.op = "create_room" /\ lastCall'.outcome = "created")
          => LET ws == lastCall'.ws
                 binding == playerConnections'[ws]
                 r == binding.roomId
                 room == heap'[rooms'[r]]
             IN  /\ r \in RoomIds
                 /\ rooms[r] = NoRef
                 /\ store[r] = EmptyStore[r]
                 /\ rooms'[r] # NoRef
                 /\ room.players = <<[key |-> binding.playerId,
                                      value |-> [id |-> binding.playerId,
                                                 name |-> NameOf(binding.playerId)]]>>
                 /\ room.connections = <<[key |-> binding.playerId, value |-> ws]>>
                 /\ connected => /\ store'[r].metadata # NoMetadata
                                 /\ store'[r].metadata.id = r
                                 /\ store'[r].players = GetStoredPlayers(room)
                 /\ \A q \in RoomIds \ {r} : rooms'[q] = rooms[q] /\ store'[q] = store[q]
      ]_vars

\* --- Join against departure -----------------------------------------------------
\* C26: a join_room of a resident room that answers room_joined (to a
\* connection that is open and has not asked to leave) leaves that
\* connection bound to a room that is resident in the room map and whose
\* connection map holds the connection, whatever disconnect or leave_room
\* of the room's other connections ran while the join awaited the store.
C26_JoinSurvivesDeparture ==
    [][LET t == lastCall'.task
           binding == [playerId |-> t.playerId, roomId |-> t.roomId]
       IN  (/\ lastCall'.op = "resume" /\ t.kind = "join_room" /\ t.pc = "persist"
            /\ ~t.storedRoom
            /\ readyState[t.ws] = "OPEN"
            /\ playerConnections[t.ws] = binding
            /\ \A d \in BagToSet(tasks) : ~(d.kind = "disconnect" /\ d.ws = t.ws)
            /\ \E k \in 1..Len(sent') : sent'[k].to = t.ws /\ sent'[k].msg.type = "room_joined")
               => /\ playerConnections'[t.ws] = binding
                  /\ rooms'[t.roomId] # NoRef
                  /\ MapHas(heap'[rooms'[t.roomId]].connections, t.playerId)
                  /\ MapGet(heap'[rooms'[t.roomId]].connections, t.playerId) = t.ws
      ]_vars

\* --- Whose turn ---------------------------------------------------------------
\* C27: only the player whose turn it is changes the game: a game_action
\* (play_card, end_turn or undo_move) sent by a connection bound to a player
\* other than currentPlayerId is answered with a game_error to that
\* connection and leaves the room and its game state unchanged.
C27_OnlyCurrentPlayer ==
    [][LET ws == lastCall'.ws
           binding == playerConnections[ws]
           gs == heap[rooms[binding.roomId]].gameState
       IN  (/\ lastCall'.op = "game_action"
            /\ binding # NoBinding
            /\ rooms[binding.roomId] # NoRef
            /\ gs # NoGame
            /\ binding.playerId # gs.currentPlayerId)
               => /\ lastCall'.outcome = "rejected"
                  /\ Len(sent') = 1
                  /\ sent'[1].to = ws
                  /\ sent'[1].msg.type = "game_error"
                  /\ UNCHANGED <<rooms, heap, store>>
      ]_vars

\* --- No stuck game -----------------------------------------------------------
\* C28: in every reachable game state with status 'playing' the current
\* player can play some card of the hand on some pile or end the turn: the
\* game never rests in 'playing' with no legal card and cardsPlayed below
\* minCardsToPlay.
C28_NoStuckGame ==
    (game # NoGame /\ game.status = "playing")
        => LET current == game.players[PlayerIndex(game.players, game.currentPlayerId)]
           IN  \/ HasValidMoves(current, game.piles)
               \/ game.cardsPlayed >= game.minCardsToPlay

\* --- Bindings -------------------------------------------------------------------
\* The socket index and the connection maps of the resident rooms agree.
BindingConsistent ==
    \A r \in RoomIds :
        rooms[r] # NoRef =>
            LET room == heap[rooms[r]]
            IN  /\ \A i \in 1..Len(room.connections) :
                       playerConnections[room.connections[i].value]
                           = [playerId |-> room.connections[i].key, roomId |-> r]
                /\ \A s \in Sockets :
                       playerConnections[s].roomId = r
                           => /\ MapHas(room.connections, playerConnections[s].playerId)
                              /\ MapGet(room.connections, playerConnections[s].playerId) = s

\* C29: whenever no handler is in flight, r.connections[p] = s implies that
\* the socket index binds s to (p, r), and every socket bound to (p, r)
\* with r resident is r.connections[p]; and the close of another socket
\* neither removes the connection entry of an open bound socket nor marks
\* its player disconnected.
C29_BindingConsistency ==
    [][/\ tasks' = EmptyBag => BindingConsistent'
       /\ \A s \in Sockets :
              LET b == playerConnections[s]
                  room == heap[rooms[b.roomId]]
                  after == heap'[rooms'[b.roomId]]
              IN  (/\ lastCall'.op = "close" /\ lastCall'.ws # s
                   /\ b # NoBinding /\ readyState[s] = "OPEN"
                   /\ rooms[b.roomId] # NoRef
                   /\ MapHas(room.connections, b.playerId)
                   /\ MapGet(room.connections, b.playerId) = s)
                      => /\ rooms'[b.roomId] # NoRef
                         /\ MapHas(after.connections, b.playerId)
                         /\ MapGet(after.connections, b.playerId) = s
                         /\ after.gameState # NoGame
                                => \A i \in DOMAIN after.gameState.players :
                                       after.gameState.players[i].id = b.playerId
                                           => after.gameState.players[i].isConnected
      ]_vars

\* --- Connectivity flags ---------------------------------------------------------
\* C30: whenever no handler is in flight, each player of a resident room's
\* game state has isConnected = true exactly when the room's connection map
\* has an entry for that player.
C30_ConnectivityFlags ==
    tasks = EmptyBag =>
        \A r \in RoomIds :
            (rooms[r] # NoRef /\ heap[rooms[r]].gameState # NoGame) =>
                LET room == heap[rooms[r]]
                IN  \A i \in DOMAIN room.gameState.players :
                        room.gameState.players[i].isConnected
                            <=> MapHas(room.connections, room.gameState.players[i].id)

\* --- Dealing once ----------------------------------------------------------------
\* C31: dealCards returns false and changes nothing when the room is not
\* resident, is already started or has no roster player; a resident room
\* whose isStarted flag is set keeps it set; and a dealCards that succeeds
\* finds no game state in the room, so it never replaces one.
C31_DealtOnce ==
    [][\A r \in RoomIds :
           LET room == heap[rooms[r]]
               after == heap'[rooms'[r]]
           IN  /\ (/\ lastCall'.op = "deal"
                   /\ \/ rooms[r] = NoRef
                      \/ room.isStarted
                      \/ Len(room.players) < 1)
                      => /\ lastCall'.outcome = "refused"
                         /\ UNCHANGED <<rooms, heap, store, playerConnections, tasks>>
                         /\ sent' = <<>>
               /\ (rooms[r] # NoRef /\ room.isStarted /\ rooms'[r] # NoRef)
                      => after.isStarted
               /\ (lastCall'.op = "deal" /\ lastCall'.outcome = "dealt")
                      => room.gameState = NoGame
      ]_vars

\* --- The chat log is append-only ---------------------------------------------------
Position(log, message) == CHOOSE i \in 1..Len(log) : log[i] = message

\* The messages of old are in new in the order they had; the oldest may be
\* gone only from a log that is full.
KeptInOrder(old, new) ==
    \E k \in 0..Len(old) :
        LET rest == SubSeq(old, k + 1, Len(old))
        IN  /\ k > 0 => Len(new) = MaxChatHistory
            /\ \A i \in DOMAIN rest : \E j \in DOMAIN new : new[j] = rest[i]
            /\ \A i, j \in DOMAIN rest :
                   i < j => Position(new, rest[i]) < Position(new, rest[j])

\* C32: a message in the chat log of a resident room stays in the log, in
\* its order, as long as the room is resident and the log is not full,
\* whatever chat_message or join_room handler runs.
C32_ChatAppendOnly ==
    [][\A r \in RoomIds :
           (rooms[r] # NoRef /\ rooms'[r] # NoRef)
               => KeptInOrder(heap[rooms[r]].chatMessages, heap'[rooms'[r]].chatMessages)
      ]_vars

\* --- Hydration ---------------------------------------------------------------------
\* The server in the state a step leads to.
ServerAfter ==
    [rooms |-> rooms', heap |-> heap', playerConnections |-> playerConnections',
     readyState |-> readyState', store |-> store', connected |-> connected',
     tasks |-> tasks', sent |-> <<>>, outcome |-> "", now |-> 10, uuid |-> steps' + 1]

Ids(players) == {players[i].id : i \in DOMAIN players}

Keys(m) == {m[i].key : i \in DOMAIN m}

\* What hydrateRoomFromPersistence makes of the room of S with the snapshot:
\* the roster is the memory roster plus the stored one, the connection
\* entries of roster players are kept, the others are gone with their
\* bindings.
HydrateKeepsLive(S, ref, snapshot) ==
    LET H == Hydrate(S, ref, snapshot)
        before == S.heap[ref]
        after == H.heap[ref]
    IN  /\ Keys(after.players) = Keys(before.players) \cup Ids(snapshot.players)
        /\ \A i \in DOMAIN before.connections :
               LET e == before.connections[i]
               IN  IF e.key \in Keys(after.players)
                   THEN MapHas(after.connections, e.key) /\ MapGet(after.connections, e.key) = e.value
                   ELSE /\ ~MapHas(after.connections, e.key)
                        /\ H.playerConnections[e.value] = NoBinding
        /\ Keys(after.connections) \subseteq Keys(before.connections)

\* C33: the hydration a join_room handler performs keeps the in-memory
\* roster and adds the stored one, keeps the connection entries of roster
\* players and removes the others with their bindings; with no record in
\* the store, and with a store read that fails, it leaves the room as it is.
C33_HydrateKeepsLive ==
    [][(lastCall'.op = "resume" /\ lastCall'.task.kind = "join_room")
           => LET t == lastCall'.task
              IN  /\ t.pc = "hydrate.parts"
                         => HydrateKeepsLive(Server, t.room, t.snapshot)
                  /\ (t.pc = "hydrate.metadata" /\ t.snapshot.metadata = NoMetadata
                      /\ heap'[t.room] # NoRoom)
                         => /\ Keys(heap'[t.room].players) \ {t.playerId} = Keys(heap[t.room].players) \ {t.playerId}
                            /\ SameGame(heap'[t.room].gameState, heap[t.room].gameState)
                            /\ heap'[t.room].chatMessages = heap[t.room].chatMessages
                            /\ heap'[t.room].isStarted = heap[t.room].isStarted
                  /\ (t.pc = "hydrate.metadata" /\ t.snapshot.metadata # NoMetadata /\ ~connected)
                         => \A u \in BagToSet(tasks') :
                                (u.kind = "join_room" /\ u.ws = t.ws /\ u.pc = "hydrate.parts")
                                    => Hydrate(ServerAfter, u.room, u.snapshot).heap[u.room]
                                           = heap'[u.room]
      ]_vars

\* --- Who is dealt ------------------------------------------------------------------
\* The roster players of the room with an open connection, in the order of
\* the connection map.
OpenPlayers(room) ==
    LET open == SelectSeq(OpenEntries(room), LAMBDA e : MapHas(room.players, e.key))
    IN  [i \in DOMAIN open |-> open[i].key]

\* C34: a dealCards that is not refused deals to the roster players with an
\* open connection at that moment, in connection-map order, a hand of the
\* starting size each, and to nobody else; when no connection of a roster
\* player is open it fails and leaves isStarted false and the game state as
\* it was.
C34_DealsToOpenConnections ==
    [][\A r \in RoomIds :
           LET room == heap[rooms[r]]
               after == heap'[rooms'[r]]
               dealt == after.gameState.players
           IN  (/\ lastCall'.op = "deal"
                /\ rooms[r] # NoRef /\ ~room.isStarted /\ Len(room.players) >= 1)
                   => /\ rooms'[r] = rooms[r]
                      /\ Len(OpenPlayers(room)) = 0
                             => /\ lastCall'.outcome = "failed"
                                /\ ~after.isStarted
                                /\ after.gameState = room.gameState
                      /\ Len(OpenPlayers(room)) \in 1..MaxPlayers
                             => /\ lastCall'.outcome = "dealt"
                                /\ after.isStarted
                                /\ [i \in DOMAIN dealt |-> dealt[i].id] = OpenPlayers(room)
                                /\ \A i \in DOMAIN dealt :
                                       Len(dealt[i].hand) = GetStartingHandSize(Len(dealt))
      ]_vars

C34_Witness ==
    /\ lastCall.op = "deal"
    /\ lastCall.outcome = "dealt"
    /\ \E r \in RoomIds :
           /\ rooms[r] # NoRef
           /\ Len(heap[rooms[r]].gameState.players) < Len(heap[rooms[r]].players)
           /\ Len(heap[rooms[r]].gameState.players) > 1

\* --- Automatic choice of the starting player -------------------------------------
\* The game state the first phase of the start leaves: cards dealt, nobody
\* holds the turn.
PhaseOne(gs) ==
    [gs EXCEPT !.status = "cards_dealt",
               !.currentPlayerId = "",
               !.players = [i \in DOMAIN @ |-> [@[i] EXCEPT !.isCurrentPlayer = FALSE]],
               !.moveHistory = <<>>, !.canUndo = FALSE, !.cardsPlayed = 0]

IsSorted(hand) == \A i \in 1..(Len(hand) - 1) : hand[i] < hand[i + 1]

\* C36: a successful endTurn draws from the deck into the hand of the player
\* who ends the turn until the hand has the starting size or the deck is
\* empty, keeps that hand sorted ascending, gives the turn to the next
\* player in seating order (circular), sets cardsPlayed to 0 and canUndo to
\* false, and changes no other hand and no pile.
C36_EndTurn ==
    [][(lastCall'.op = "endTurn" /\ lastCall'.ok)
           => LET n == Len(game.players)
                  cur == PlayerIndex(game.players, game.currentPlayerId)
                  next == IF cur = n THEN 1 ELSE cur + 1
                  target == ClaimedHandSize(n)
                  hand == game.players[cur].hand
                  after == game'.players[cur].hand
                  drawn == IF Len(hand) < target
                           THEN Min(target, Len(hand) + Len(game.deck)) - Len(hand)
                           ELSE 0
              IN  /\ Len(after) = Len(hand) + drawn
                  /\ game'.deck = SubSeq(game.deck, 1, Len(game.deck) - drawn)
                  /\ SeqToSet(after)
                         = SeqToSet(hand) \cup SeqToSet(SubSeq(game.deck, Len(game.deck) - drawn + 1,
                                                               Len(game.deck)))
                  /\ IsSorted(after)
                  /\ game'.currentPlayerId = game.players[next].id
                  /\ \A i \in 1..n : game'.players[i].isCurrentPlayer <=> (i = next)
                  /\ game'.cardsPlayed = 0
                  /\ ~game'.canUndo
                  /\ Len(game'.players) = n
                  /\ \A i \in 1..n : i # cur => game'.players[i].hand = game.players[i].hand
                  /\ game'.piles = game.piles
      ]_vars

\* The second player of two has ended a turn: the turn is back at the first
\* seat, and both players have drawn back to seven cards.
C36_Witness ==
    /\ CalledOk("endTurn")
    /\ Len(game.players) = 2
    /\ game.currentPlayerId = game.players[1].id
    /\ Len(game.players[2].hand) = 7
    /\ Len(game.deck) < 82

\* --- The effect of a played card ----------------------------------------------------
\* C37: a successful playCard returns a state in which one card has gone
\* from the current player's hand to the end of one pile, that pile's
\* current value is the card and cardsPlayed is one higher, while the other
\* hands, the other three piles, the deck, currentPlayerId and status are
\* as before; the state passed in is kept as it was, as the last snapshot of
\* the history.
C37_PlayCardFrame ==
    [][(lastCall'.op = "playCard" /\ lastCall'.ok)
           => LET cur == PlayerIndex(game.players, game.currentPlayerId)
                  hand == game.players[cur].hand
              IN  /\ \E c \in DOMAIN hand, k \in DOMAIN game.piles :
                         /\ game'.players[cur].hand
                                = SubSeq(hand, 1, c - 1) \o SubSeq(hand, c + 1, Len(hand))
                         /\ game'.piles[k].cards = game.piles[k].cards \o <<hand[c]>>
                         /\ game'.piles[k].currentValue = hand[c]
                         /\ game'.piles[k].id = game.piles[k].id
                         /\ game'.piles[k].type = game.piles[k].type
                         /\ \A j \in DOMAIN game.piles : j # k => game'.piles[j] = game.piles[j]
                  /\ DOMAIN game'.piles = DOMAIN game.piles
                  /\ game'.cardsPlayed = game.cardsPlayed + 1
                  /\ DOMAIN game'.players = DOMAIN game.players
                  /\ \A i \in DOMAIN game.players :
                         /\ i # cur => game'.players[i] = game.players[i]
                         /\ game'.players[i] = [game.players[i] EXCEPT !.hand = game'.players[i].hand]
                  /\ game'.deck = game.deck
                  /\ game'.currentPlayerId = game.currentPlayerId
                  /\ game'.status = game.status
                  /\ game'.moveHistory[Len(game'.moveHistory)]
                         = [game EXCEPT !.moveHistory = <<>>, !.canUndo = FALSE]
      ]_vars

\* The second player of two has played a card on a pile that held cards.
C37_Witness ==
    /\ CalledOk("playCard")
    /\ Len(game.players) = 2
    /\ game.currentPlayerId = game.players[2].id
    /\ game.cardsPlayed = 2
    /\ \E k \in DOMAIN game.piles : Len(game.piles[k].cards) > 2

\* --- Terminal statuses ------------------------------------------------------------
Terminal(gs) == gs # NoGame /\ gs.status \in {"won", "lost"}

\* C38: terminal statuses are absorbing. While a room whose game state has
\* status 'won' or 'lost' stays resident, its game state keeps that status,
\* and a play_card, end_turn or undo_move handled for a connection bound to
\* the room is answered with a game_error and applies nothing.
C38_TerminalAbsorbing ==
    [][\A r \in RoomIds :
           (rooms[r] # NoRef /\ Terminal(heap[rooms[r]].gameState)) =>
               /\ rooms'[r] # NoRef =>
                      /\ heap'[rooms'[r]].gameState # NoGame
                      /\ heap'[rooms'[r]].gameState.status = heap[rooms[r]].gameState.status
               /\ (/\ lastCall'.op = "game_action"
                   /\ playerConnections[lastCall'.ws] # NoBinding
                   /\ playerConnections[lastCall'.ws].roomId = r)
                      => /\ lastCall'.outcome = "rejected"
                         /\ Len(sent') = 1
                         /\ sent'[1].msg.type = "game_error"
                         /\ UNCHANGED <<rooms, heap, store, playerConnections, tasks>>
      ]_vars

\* --- The starting player ----------------------------------------------------------
HighestScore(players, piles) ==
    CHOOSE i \in DOMAIN players :
        /\ \A k \in DOMAIN players : StartScore(players[k], piles) <= StartScore(players[i], piles)
        /\ \A k \in 1..(i - 1) : StartScore(players[k], piles) < StartScore(players[i], piles)

\* C39: the game that initializeGame returns starts with the player of the
\* highest score, the lowest index among the players that share it: that
\* player and no other has the current-turn flag, and currentPlayerId is
\* that player's id.
C39_StartingPlayer ==
    [][(lastCall'.op = "initializeGame" /\ lastCall'.ok) =>
           LET best == HighestScore(game'.players, game'.piles)
           IN  /\ game'.currentPlayerId = game'.players[best].id
               /\ \A i \in DOMAIN game'.players : game'.players[i].isCurrentPlayer <=> i = best
      ]_vars

====
